---- MODULE Spec2Model ----
(***************************************************************************)
(* A model of the SQL -> Firestore translator of src/sql-translator.js.   *)
(* Text is a sequence of one-character strings, so that the scanners and  *)
(* the regular expressions of the source are modelled character by        *)
(* character.                                                             *)
(***************************************************************************)
EXTENDS Integers, Sequences, FiniteSets, TLC

VARIABLES sql, includeId, pc, plan, calls, rows, err, docs, fn, arg, out,
          history, saved, lines, closed

vars == <<sql, includeId, pc, plan, calls, rows, err, docs, fn, arg, out,
          history, saved, lines, closed>>

\* one query of the translator, and a function under application
coreVars == <<sql, includeId, pc, plan, calls, rows, err, fn, arg, out>>

\* the shell: the history file, the log of the queries saved to it, the input
\* lines with what their handlers did, and whether the session has ended
shellVars == <<history, saved, lines, closed>>

(***************************************************************************)
(* Characters and the String methods the source uses                      *)
(***************************************************************************)
LowerSeq == <<"a","b","c","d","e","f","g","h","i","j","k","l","m",
              "n","o","p","q","r","s","t","u","v","w","x","y","z">>

UpperSeq == <<"A","B","C","D","E","F","G","H","I","J","K","L","M",
              "N","O","P","Q","R","S","T","U","V","W","X","Y","Z">>

DigitSeq == <<"0","1","2","3","4","5","6","7","8","9">>

Lower == {LowerSeq[i] : i \in 1..26}

Upper == {UpperSeq[i] : i \in 1..26}

Digit == {DigitSeq[i] : i \in 1..10}

\* \s of the regular expressions and the characters trim() removes
WhiteSpace == {" ", "\t", "\n", "\r"}

DigitVal(c) == (CHOOSE i \in 1..10 : DigitSeq[i] = c) - 1

ToUpperChar(c) ==
  IF c \in Lower THEN UpperSeq[CHOOSE i \in 1..26 : LowerSeq[i] = c] ELSE c

ToLowerChar(c) ==
  IF c \in Upper THEN LowerSeq[CHOOSE i \in 1..26 : UpperSeq[i] = c] ELSE c

ToUpper(s) == [i \in 1..Len(s) |-> ToUpperChar(s[i])]

ToLower(s) == [i \in 1..Len(s) |-> ToLowerChar(s[i])]

Min(S) == CHOOSE x \in S : \A y \in S : x <= y

Max(S) == CHOOSE x \in S : \A y \in S : x >= y

Trim(s) ==
  LET I == {i \in 1..Len(s) : s[i] \notin WhiteSpace}
  IN  IF I = {} THEN <<>> ELSE SubSeq(s, Min(I), Max(I))

\* s.slice(1, -1)
Slice1(s) == SubSeq(s, 2, Len(s) - 1)

\* does the text p occur in s at position i (1-based)
At(s, i, p) == i >= 1 /\ i + Len(p) - 1 <= Len(s) /\ SubSeq(s, i, i + Len(p) - 1) = p

\* the same, ignoring case (the /i flag)
AtCI(s, i, p) ==
  /\ i >= 1 /\ i + Len(p) - 1 <= Len(s)
  /\ \A k \in 1..Len(p) : ToUpperChar(s[i + k - 1]) = ToUpperChar(p[k])

StartsWith(s, p) == At(s, 1, p)

EndsWith(s, p) == At(s, Len(s) - Len(p) + 1, p)

\* first index >= i of s that is not in the class S (Len(s)+1 when none)
RECURSIVE SkipSet(_, _, _)
SkipSet(s, i, S) ==
  IF i <= Len(s) /\ s[i] \in S THEN SkipSet(s, i + 1, S) ELSE i

\* \d{n} at position i
DigitsAt(s, i, n) == i + n - 1 <= Len(s) /\ \A k \in i..(i + n - 1) : s[k] \in Digit

RECURSIVE DigitsToNat(_)
DigitsToNat(ds) ==
  IF ds = <<>> THEN 0
  ELSE 10 * DigitsToNat(SubSeq(ds, 1, Len(ds) - 1)) + DigitVal(ds[Len(ds)])

(***************************************************************************)
(* Values: the results of parseValue                                      *)
(***************************************************************************)
StringV(s) == [type |-> "String", s |-> s]

BooleanV(b) == [type |-> "Boolean", b |-> b]

NullV == [type |-> "Null"]

\* a finite number is m * 10^e with m not a multiple of 10 (0 is 0 * 10^0)
RECURSIVE NumberV(_, _)
NumberV(m, e) ==
  IF m = 0 THEN [type |-> "Number", kind |-> "finite", m |-> 0, e |-> 0]
  ELSE IF m % 10 = 0 THEN NumberV(m \div 10, e + 1)
  ELSE [type |-> "Number", kind |-> "finite", m |-> m, e |-> e]

InfinityV(sign) == [type |-> "Number", kind |-> "Infinity", m |-> sign, e |-> 0]

NaNV == [type |-> "Number", kind |-> "NaN", m |-> 0, e |-> 0]

TimestampV(y, mo, d, h, mi, sec, ms, zone) ==
  [type |-> "Timestamp", year |-> y, month |-> mo, day |-> d, hour |-> h,
   minute |-> mi, second |-> sec, ms |-> ms, zone |-> zone]

(***************************************************************************)
(* Numeric strings: isNaN(str) (that is Number(str)) and parseFloat(str)  *)
(***************************************************************************)
InfinityWord == <<"I","n","f","i","n","i","t","y">>

HexDigit == Digit \cup {"a","b","c","d","e","f","A","B","C","D","E","F"}

\* ExponentPart at position j: e or E, an optional sign, digits
ExponentAt(s, j) ==
  LET hasE == j <= Len(s) /\ s[j] \in {"e", "E"}
      sgn  == j + 1 <= Len(s) /\ s[j + 1] \in {"+", "-"}
      k    == IF sgn THEN j + 2 ELSE j + 1
      k2   == SkipSet(s, k, Digit)
  IN  IF hasE /\ k2 > k
      THEN [ok |-> TRUE, next |-> k2,
            e  |-> (IF s[j + 1] = "-" THEN -1 ELSE 1) * DigitsToNat(SubSeq(s, k, k2 - 1))]
      ELSE [ok |-> FALSE, next |-> j, e |-> 0]

\* the end of the fraction digits when a dot stands at position j1
FractionEnd(s, j1) ==
  IF j1 <= Len(s) /\ s[j1] = "." THEN SkipSet(s, j1 + 1, Digit) ELSE j1

\* the literal made of the digits i..j1-1, the fraction j1+1..j2-1 and the exponent x
DecimalOf(intd, frac, x) ==
  [ok |-> intd # <<>> \/ frac # <<>>, next |-> x.next,
   m |-> DigitsToNat(intd \o frac), e |-> x.e - Len(frac)]

DecimalParts(s, i, j1, j2) ==
  DecimalOf(SubSeq(s, i, j1 - 1), SubSeq(s, j1 + 1, j2 - 1), ExponentAt(s, j2))

DecimalFrom(s, i, j1) == DecimalParts(s, i, j1, FractionEnd(s, j1))

\* StrUnsignedDecimalLiteral at position i, longest match:
\* digits [. digits] [exponent] or . digits [exponent]
DecimalAt(s, i) == DecimalFrom(s, i, SkipSet(s, i, Digit))

\* Number(str): "nan" when str is not a StringNumericLiteral
NumericKind(s, b) ==
  IF s = <<>> THEN "zero"
  ELSE IF Len(s) >= 3 /\ s[1] = "0" /\ s[2] \in {"x", "X"}
          /\ \A k \in 3..Len(s) : s[k] \in HexDigit THEN "radix"
  ELSE IF Len(s) >= 3 /\ s[1] = "0" /\ s[2] \in {"b", "B"}
          /\ \A k \in 3..Len(s) : s[k] \in {"0", "1"} THEN "radix"
  ELSE IF Len(s) >= 3 /\ s[1] = "0" /\ s[2] \in {"o", "O"}
          /\ \A k \in 3..Len(s) : s[k] \in {"0","1","2","3","4","5","6","7"} THEN "radix"
  ELSE IF SubSeq(s, b, Len(s)) = InfinityWord THEN "infinity"
  ELSE IF DecimalAt(s, b).ok /\ DecimalAt(s, b).next = Len(s) + 1 THEN "decimal"
  ELSE "nan"

\* position of the first character after an optional sign
AfterSign(s) == IF s # <<>> /\ s[1] \in {"+", "-"} THEN 2 ELSE 1

ToNumberTrimmed(s) == NumericKind(s, AfterSign(s))

ToNumberKind(str) == ToNumberTrimmed(Trim(str))

\* isNaN(str) for a string argument
IsNaNStr(str) == ToNumberKind(str) = "nan"

\* parseFloat(str): the longest decimal prefix after leading white space
FloatOf(neg, d) ==
  IF d.ok THEN NumberV(IF neg THEN 0 - d.m ELSE d.m, d.e) ELSE NaNV

FloatFrom(s, b) ==
  IF At(s, b, InfinityWord) THEN InfinityV(IF s[1] = "-" THEN -1 ELSE 1)
  ELSE FloatOf(s # <<>> /\ s[1] = "-", DecimalAt(s, b))

ParseFloatTrimmed(s) == FloatFrom(s, AfterSign(s))

ParseFloat(str) == ParseFloatTrimmed(SubSeq(str, SkipSet(str, 1, WhiteSpace), Len(str)))

(***************************************************************************)
(* parseTimestamp: four accepted shapes, then new Date(text) must be      *)
(* valid.  Date.parse is the one of Node (V8): a month is 1..12, a day    *)
(* of the month 1..31 whatever the month, an hour 0..23 (or 24:00:00), a  *)
(* minute and a second 0..59.                                             *)
(***************************************************************************)
NoTimestamp == [type |-> "none"]

MonthNames ==
  <<<<"J","a","n","u","a","r","y">>,
     <<"F","e","b","r","u","a","r","y">>,
     <<"M","a","r","c","h">>,
     <<"A","p","r","i","l">>,
     <<"M","a","y">>,
     <<"J","u","n","e">>,
     <<"J","u","l","y">>,
     <<"A","u","g","u","s","t">>,
     <<"S","e","p","t","e","m","b","e","r">>,
     <<"O","c","t","o","b","e","r">>,
     <<"N","o","v","e","m","b","e","r">>,
     <<"D","e","c","e","m","b","e","r">>>>

\* year of a legacy (non-ISO) date text: 0..49 is 20xx, 50..99 is 19xx
LegacyYear(y) == IF y <= 49 THEN y + 2000 ELSE IF y <= 99 THEN y + 1900 ELSE y

Num(s, i, n) == DigitsToNat(SubSeq(s, i, i + n - 1))

\* /^\d{4}-\d{2}-\d{2}T\d{2}:\d{2}:\d{2}(\.\d{3})?Z?$/
IsoDateTimeShape(s) ==
  /\ Len(s) >= 19
  /\ DigitsAt(s, 1, 4) /\ s[5] = "-" /\ DigitsAt(s, 6, 2) /\ s[8] = "-" /\ DigitsAt(s, 9, 2)
  /\ s[11] = "T" /\ DigitsAt(s, 12, 2) /\ s[14] = ":" /\ DigitsAt(s, 15, 2)
  /\ s[17] = ":" /\ DigitsAt(s, 18, 2)
  /\ LET r == SubSeq(s, 20, Len(s))
         f == IF Len(r) >= 4 /\ r[1] = "." /\ DigitsAt(r, 2, 3) THEN SubSeq(r, 5, Len(r)) ELSE r
     IN  f = <<>> \/ f = <<"Z">>

\* /^\d{4}-\d{2}-\d{2}$/
IsoDateShape(s) ==
  Len(s) = 10 /\ DigitsAt(s, 1, 4) /\ s[5] = "-" /\ DigitsAt(s, 6, 2) /\ s[8] = "-" /\ DigitsAt(s, 9, 2)

\* /^\d{2}-\d{2}-\d{4}$/
UsDateShape(s) ==
  Len(s) = 10 /\ DigitsAt(s, 1, 2) /\ s[3] = "-" /\ DigitsAt(s, 4, 2) /\ s[6] = "-" /\ DigitsAt(s, 7, 4)

\* the month whose name (whatever the case) starts s, or 0
MonthAt(s) ==
  IF \E k \in 1..12 : AtCI(s, 1, MonthNames[k])
  THEN CHOOSE k \in 1..12 : AtCI(s, 1, MonthNames[k])
  ELSE 0

\* the year \d{4}$ after the white space that starts at d
LongDateYear(s, k, day, d, e) ==
  [ok    |-> e > d /\ DigitsAt(s, e, 4) /\ e + 3 = Len(s),
   month |-> k, day |-> day,
   year  |-> IF DigitsAt(s, e, 4) THEN Num(s, e, 4) ELSE 0]

\* the optional comma at position c, after the day b..c-1
LongDateComma(s, k, b, c) ==
  LongDateYear(s, k, DigitsToNat(SubSeq(s, b, c - 1)),
               IF c <= Len(s) /\ s[c] = "," THEN c + 1 ELSE c,
               SkipSet(s, IF c <= Len(s) /\ s[c] = "," THEN c + 1 ELSE c, WhiteSpace))

\* the day \d{1,2} at position b, after the white space that starts at a
LongDateDay(s, k, a, b) ==
  IF b > a /\ DigitsAt(s, b, 1)
  THEN LongDateComma(s, k, b, IF DigitsAt(s, b, 2) THEN b + 2 ELSE b + 1)
  ELSE [ok |-> FALSE, month |-> k, day |-> 0, year |-> 0]

LongDateMonth(s, k) ==
  IF k = 0 THEN [ok |-> FALSE, month |-> 0, day |-> 0, year |-> 0]
  ELSE LongDateDay(s, k, Len(MonthNames[k]) + 1, SkipSet(s, Len(MonthNames[k]) + 1, WhiteSpace))

\* /^(January|...|December)\s+\d{1,2},?\s+\d{4}$/i : the fields, or ok = FALSE
LongDateFields(s) == LongDateMonth(s, MonthAt(s))

\* a slip: the validity of the parsed date is not tested
ValidMonthDay_unchecked(mo, d) == TRUE

ValidMonthDay(mo, d) == mo \in 1..12 /\ d \in 1..31

ValidTime(h, mi, sec, ms) ==
  /\ mi \in 0..59 /\ sec \in 0..59
  /\ h \in 0..23 \/ (h = 24 /\ mi = 0 /\ sec = 0 /\ ms = 0)

\* new Date(text) for a text of the fourth shape
LongDate(f) ==
  IF f.ok /\ ValidMonthDay(f.month, f.day)
  THEN TimestampV(LegacyYear(f.year), f.month, f.day, 0, 0, 0, 0, "local")
  ELSE NoTimestamp

parseTimestamp(s) ==
  IF IsoDateTimeShape(s) THEN
    LET ms   == IF Len(s) >= 23 /\ s[20] = "." THEN Num(s, 21, 3) ELSE 0
        zone == IF s[Len(s)] = "Z" THEN "utc" ELSE "local"
    IN  IF ValidMonthDay(Num(s, 6, 2), Num(s, 9, 2))
           /\ ValidTime(Num(s, 12, 2), Num(s, 15, 2), Num(s, 18, 2), ms)
        THEN TimestampV(Num(s, 1, 4), Num(s, 6, 2), Num(s, 9, 2),
                        Num(s, 12, 2), Num(s, 15, 2), Num(s, 18, 2), ms, zone)
        ELSE NoTimestamp
  ELSE IF IsoDateShape(s) THEN
    IF ValidMonthDay(Num(s, 6, 2), Num(s, 9, 2))
    THEN TimestampV(Num(s, 1, 4), Num(s, 6, 2), Num(s, 9, 2), 0, 0, 0, 0, "utc")
    ELSE NoTimestamp
  ELSE IF UsDateShape(s) THEN
    IF ValidMonthDay(Num(s, 1, 2), Num(s, 4, 2))
    THEN TimestampV(LegacyYear(Num(s, 7, 4)), Num(s, 1, 2), Num(s, 4, 2), 0, 0, 0, 0, "local")
    ELSE NoTimestamp
  ELSE LongDate(LongDateFields(s))

(***************************************************************************)
(* parseValue                                                              *)
(***************************************************************************)
IsQuoted(t) ==
  \/ StartsWith(t, <<"\"">>) /\ EndsWith(t, <<"\"">>)
  \/ StartsWith(t, <<"'">>) /\ EndsWith(t, <<"'">>)

\* one layer of matching quotes removed
StripQuotes(t) == IF IsQuoted(t) THEN Slice1(t) ELSE t

\* a single order of resolution for every text: timestamp, number, boolean, null, string
ResolveInOrder(s) ==
  IF parseTimestamp(s) # NoTimestamp THEN parseTimestamp(s)
  ELSE IF ~IsNaNStr(s) /\ s # <<>> THEN ParseFloat(s)
  ELSE IF ToLower(s) = <<"t","r","u","e">> THEN BooleanV(TRUE)
  ELSE IF ToLower(s) = <<"f","a","l","s","e">> THEN BooleanV(FALSE)
  ELSE IF ToLower(s) = <<"n","u","l","l">> THEN NullV
  ELSE StringV(s)

\* a variant that resolves quoted and bare texts alike
parseValue_oneOrder(valueStr) == ResolveInOrder(StripQuotes(Trim(valueStr)))

parseValue(valueStr) ==
  LET trimmed  == Trim(valueStr)
      unquoted == Slice1(trimmed)
  IN  IF IsQuoted(trimmed) THEN
        IF parseTimestamp(unquoted) # NoTimestamp THEN parseTimestamp(unquoted)
        ELSE IF ~IsNaNStr(unquoted) /\ unquoted # <<>> THEN ParseFloat(unquoted)
        ELSE StringV(unquoted)
      ELSE IF ~IsNaNStr(trimmed) /\ trimmed # <<>> THEN ParseFloat(trimmed)
      ELSE IF ToLower(trimmed) = <<"t","r","u","e">> THEN BooleanV(TRUE)
      ELSE IF ToLower(trimmed) = <<"f","a","l","s","e">> THEN BooleanV(FALSE)
      ELSE IF ToLower(trimmed) = <<"n","u","l","l">> THEN NullV
      ELSE StringV(trimmed)

(***************************************************************************)
(* Results of the parser: JsNull is JavaScript's null, Err(m) a thrown    *)
(* Error with message m                                                    *)
(***************************************************************************)
JsNull == [type |-> "null"]

Err(m) == [type |-> "error", message |-> m]

IsErr(r) == r.type = "error"

W_id == <<"i","d">>

W_name == <<"_","_","n","a","m","e","_","_">>

W_AND == <<"A","N","D">>

W_OR == <<"O","R">>

\* a slip: the comparison ignores the case of the name
convertIdToName_anyCase(fieldName) == IF ToLower(fieldName) = W_id THEN W_name ELSE fieldName

convertIdToName(fieldName) == IF fieldName = W_id THEN W_name ELSE fieldName

(***************************************************************************)
(* tokenizeWhereClause                                                     *)
(***************************************************************************)
QuoteChars == {"\"", "'"}

\* quoteChar = '' : no quote is open
NoQuote == "none"

\* a slip: a quoted span is closed by either quote character
RECURSIVE ScanFrom_anyQuote(_, _, _)
ScanFrom_anyQuote(whereStr, i, st) ==
  IF i > Len(whereStr) THEN st
  ELSE LET char == whereStr[i]
       IN  ScanFrom_anyQuote(whereStr, i + 1,
             IF ~st.inQuotes /\ char \in QuoteChars
             THEN [st EXCEPT !.inQuotes = TRUE, !.quoteChar = char,
                             !.current = Append(@, char)]
             ELSE IF st.inQuotes /\ char \in QuoteChars
             THEN [st EXCEPT !.inQuotes = FALSE, !.quoteChar = NoQuote,
                             !.current = Append(@, char)]
             ELSE IF ~st.inQuotes /\ char \in {" ", "\t"}
             THEN IF Trim(st.current) # <<>>
                  THEN [st EXCEPT !.tokens = Append(@, Trim(st.current)),
                                  !.current = <<>>]
                  ELSE st
             ELSE [st EXCEPT !.current = Append(@, char)])

\* the scan loop from character i on; st = [tokens, current, inQuotes, quoteChar]
RECURSIVE ScanFrom(_, _, _)
ScanFrom(whereStr, i, st) ==
  IF i > Len(whereStr) THEN st
  ELSE LET char == whereStr[i]
       IN  ScanFrom(whereStr, i + 1,
             IF ~st.inQuotes /\ char \in QuoteChars
             THEN [st EXCEPT !.inQuotes = TRUE, !.quoteChar = char,
                             !.current = Append(@, char)]
             ELSE IF st.inQuotes /\ char = st.quoteChar
             THEN [st EXCEPT !.inQuotes = FALSE, !.quoteChar = NoQuote,
                             !.current = Append(@, char)]
             ELSE IF ~st.inQuotes /\ char \in {" ", "\t"}
             THEN IF Trim(st.current) # <<>>
                  THEN [st EXCEPT !.tokens = Append(@, Trim(st.current)),
                                  !.current = <<>>]
                  ELSE st
             ELSE [st EXCEPT !.current = Append(@, char)])

\* the tokens of the scan, before the post-pass
ScanTokens(whereStr) ==
  LET st == ScanFrom(whereStr, 1,
                     [tokens |-> <<>>, current |-> <<>>, inQuotes |-> FALSE,
                      quoteChar |-> NoQuote])
  IN  IF Trim(st.current) # <<>> THEN Append(st.tokens, Trim(st.current)) ELSE st.tokens

IdentStart == Lower \cup Upper \cup {"_"}

IdentChar == IdentStart \cup Digit

OperatorChar == {"=", "!", "<", ">"}

\* a slip: the pattern takes one operator character, [=!<>] without the +
SplitToken_oneChar(token) ==
  LET j == SkipSet(token, 2, IdentChar)
      k == IF j <= Len(token) /\ token[j] \in OperatorChar THEN j + 1 ELSE j
      matched == /\ token # <<>> /\ token[1] \in IdentStart
                 /\ k > j
                 /\ \A n \in k..Len(token) : token[n] \notin {"\n", "\r"}
  IN  IF matched
      THEN <<SubSeq(token, 1, j - 1), SubSeq(token, j, k - 1)>>
           \o (IF k <= Len(token) THEN <<SubSeq(token, k, Len(token))>> ELSE <<>>)
      ELSE <<token>>

\* token.match(/^([a-zA-Z_][a-zA-Z0-9_]*)([=!<>]+)(.*)$/): the pieces pushed for one token
SplitToken(token) ==
  LET j == SkipSet(token, 2, IdentChar)
      k == SkipSet(token, j, OperatorChar)
      matched == /\ token # <<>> /\ token[1] \in IdentStart
                 /\ k > j
                 /\ \A n \in k..Len(token) : token[n] \notin {"\n", "\r"}
  IN  IF matched
      THEN <<SubSeq(token, 1, j - 1), SubSeq(token, j, k - 1)>>
           \o (IF k <= Len(token) THEN <<SubSeq(token, k, Len(token))>> ELSE <<>>)
      ELSE <<token>>

RECURSIVE PostProcess(_)
PostProcess(tokens) ==
  IF tokens = <<>> THEN <<>>
  ELSE SplitToken(Head(tokens)) \o PostProcess(Tail(tokens))

tokenizeWhereClause(whereStr) == PostProcess(ScanTokens(whereStr))

(***************************************************************************)
(* parseSimpleCondition, parseConditionTokens, parseWhereConditions        *)
(***************************************************************************)
\* a slip: the field of a condition is not aliased
parseSimpleCondition_noAlias(tokens) ==
  IF Len(tokens) < 3 THEN Err("Invalid condition format")
  ELSE [type |-> "condition", field |-> tokens[1],
        operator |-> tokens[2], value |-> parseValue(tokens[3])]

parseSimpleCondition(tokens) ==
  IF Len(tokens) < 3 THEN Err("Invalid condition format")
  ELSE [type |-> "condition", field |-> convertIdToName(tokens[1]),
        operator |-> tokens[2], value |-> parseValue(tokens[3])]

\* a slip: the connective is looked for before the three-token case is tried
RECURSIVE parseConditionTokens_connectiveFirst(_)
parseConditionTokens_connectiveFirst(tokens) ==
  LET I == {i \in 2..(Len(tokens) - 1) : ToUpper(tokens[i]) \in {W_AND, W_OR}}
  IN  IF Len(tokens) = 0 THEN JsNull
      ELSE IF I = {}
      THEN (IF Len(tokens) = 3 THEN parseSimpleCondition(tokens)
            ELSE Err("Invalid condition format - expected field operator value"))
      ELSE LET k == Min(I)
               leftCondition  == parseConditionTokens_connectiveFirst(SubSeq(tokens, 1, k - 1))
               rightCondition == parseConditionTokens_connectiveFirst(SubSeq(tokens, k + 1, Len(tokens)))
           IN  IF IsErr(leftCondition) THEN leftCondition
               ELSE IF IsErr(rightCondition) THEN rightCondition
               ELSE [type |-> "logical", operator |-> ToUpper(tokens[k]),
                     left |-> leftCondition, right |-> rightCondition]

\* a slip: the last connective is taken, so that a chain groups to the left
operatorIndex_last(tokens) ==
  LET I == {i \in 2..(Len(tokens) - 1) : ToUpper(tokens[i]) \in {W_AND, W_OR}}
  IN  IF I = {} THEN 0 ELSE Max(I)

\* the loop over tokens[1..length-2]: the first index (counted from 1) of a
\* token that is AND or OR once in upper case, 0 when there is none
operatorIndex(tokens) ==
  LET I == {i \in 2..(Len(tokens) - 1) : ToUpper(tokens[i]) \in {W_AND, W_OR}}
  IN  IF I = {} THEN 0 ELSE Min(I)

\* a slip: a span that holds no condition is left out of the tree instead of
\* failing the parse
RECURSIVE parseConditionTokens_partial(_)
parseConditionTokens_partial(tokens) ==
  IF Len(tokens) = 0 THEN JsNull
  ELSE IF Len(tokens) = 3 THEN parseSimpleCondition(tokens)
  ELSE IF operatorIndex(tokens) = 0 THEN JsNull
  ELSE [type |-> "logical", operator |-> ToUpper(tokens[operatorIndex(tokens)]),
        left |-> parseConditionTokens_partial(SubSeq(tokens, 1, operatorIndex(tokens) - 1)),
        right |-> parseConditionTokens_partial(SubSeq(tokens, operatorIndex(tokens) + 1, Len(tokens)))]

RECURSIVE parseConditionTokens(_)
parseConditionTokens(tokens) ==
  IF Len(tokens) = 0 THEN JsNull
  ELSE IF Len(tokens) = 3 THEN parseSimpleCondition(tokens)
  ELSE IF operatorIndex(tokens) = 0
  THEN Err("Invalid condition format - expected field operator value")
  ELSE LET leftCondition  == parseConditionTokens(SubSeq(tokens, 1, operatorIndex(tokens) - 1))
           rightCondition == parseConditionTokens(SubSeq(tokens, operatorIndex(tokens) + 1, Len(tokens)))
       IN  IF IsErr(leftCondition) THEN leftCondition
           ELSE IF IsErr(rightCondition) THEN rightCondition
           ELSE [type |-> "logical", operator |-> ToUpper(tokens[operatorIndex(tokens)]),
                 left |-> leftCondition, right |-> rightCondition]

parseWhereConditions(whereStr) == parseConditionTokens(tokenizeWhereClause(whereStr))

(***************************************************************************)
(* parseSelectFields                                                       *)
(***************************************************************************)
W_COUNT == <<"C","O","U","N","T","(","*",")">>

W_star == <<"*">>

W_toDate == <<"t","o","D","a","t","e","(">>

W_prettyJson == <<"p","r","e","t","t","y","J","s","o","n","(">>

\* fieldsStr.split(',')
RECURSIVE SplitComma(_)
SplitComma(s) ==
  LET C == {i \in 1..Len(s) : s[i] = ","}
  IN  IF C = {} THEN <<s>>
      ELSE <<SubSeq(s, 1, Min(C) - 1)>> \o SplitComma(SubSeq(s, Min(C) + 1, Len(s)))

\* /^name\(([^)]+)\)$/i with name( = open : does it match, and group 1
CallMatch(t, open) ==
  /\ AtCI(t, 1, open)
  /\ Len(t) >= Len(open) + 2
  /\ t[Len(t)] = ")"
  /\ \A i \in (Len(open) + 1)..(Len(t) - 1) : t[i] # ")"

CallArg(t, open) == SubSeq(t, Len(open) + 1, Len(t) - 1)

\* the string '*' the source keeps in the list for SELECT *
StarItem == [type |-> "string", field |-> W_star]

CountItem == [type |-> "aggregation", function |-> "COUNT", field |-> W_star]

\* a slip: COUNT(*) is taken as the aggregate wherever it stands in the list
SelectItem_countAnywhere(field) ==
  IF ToUpper(Trim(field)) = W_COUNT THEN CountItem
  ELSE [type |-> "field", function |-> "none", field |-> convertIdToName(Trim(field))]

SelectItem(field) ==
  LET trimmed == Trim(field)
  IN  IF CallMatch(trimmed, W_toDate)
      THEN [type |-> "function", function |-> "toDate",
            field |-> convertIdToName(Trim(CallArg(trimmed, W_toDate)))]
      ELSE IF CallMatch(trimmed, W_prettyJson)
      THEN [type |-> "function", function |-> "prettyJson",
            field |-> convertIdToName(Trim(CallArg(trimmed, W_prettyJson)))]
      ELSE [type |-> "field", function |-> "none", field |-> convertIdToName(trimmed)]

parseSelectFields(fieldsStr) ==
  LET trimmed == Trim(fieldsStr)
      parts   == SplitComma(fieldsStr)
  IN  IF ToUpper(trimmed) = W_COUNT THEN <<CountItem>>
      ELSE IF trimmed = W_star THEN <<StarItem>>
      ELSE [i \in 1..Len(parts) |-> SelectItem(parts[i])]

(***************************************************************************)
(* parseSQL.  The regular expressions run on the normalised text, in      *)
(* which every run of white space is one space and none leads or trails.  *)
(***************************************************************************)
W_SELECT == <<"S","E","L","E","C","T">>

W_SELECTsp == <<"S","E","L","E","C","T"," ">>

W_spFROMsp == <<" ","F","R","O","M"," ">>

W_FROMsp == <<"F","R","O","M"," ">>

W_WHEREsp == <<"W","H","E","R","E"," ">>

W_spWHERE == <<" ","W","H","E","R","E">>

W_spORDERBY == <<" ","O","R","D","E","R"," ","B","Y">>

W_ORDERBYsp == <<"O","R","D","E","R"," ","B","Y"," ">>

W_spLIMIT == <<" ","L","I","M","I","T">>

W_LIMITsp == <<"L","I","M","I","T"," ">>

W_ASC == <<"A","S","C">>

W_DESC == <<"D","E","S","C">>

\* sql.trim().replace(/\s+/g, ' ')
\* what character i of s becomes: one blank for the first of a run of white
\* space, nothing for the others of the run, itself otherwise
CollapsedAt(s, i) ==
  IF s[i] \notin WhiteSpace THEN <<s[i]>>
  ELSE IF i > 1 /\ s[i - 1] \in WhiteSpace THEN <<>>
  ELSE <<" ">>

RECURSIVE CollapseRange(_, _, _)
CollapseRange(s, lo, hi) ==
  IF lo > hi THEN <<>>
  ELSE IF lo = hi THEN CollapsedAt(s, lo)
  ELSE CollapseRange(s, lo, (lo + hi) \div 2) \o CollapseRange(s, ((lo + hi) \div 2) + 1, hi)

CollapseSpaces(s) == CollapseRange(s, 1, Len(s))

Normalize(sqlText) == CollapseSpaces(Trim(sqlText))

\* /^SELECT\s+(.+?)\s+FROM\s+/i : the end positions of group 1, lazily the least
SelectEnds(s) ==
  IF AtCI(s, 1, W_SELECTsp)
  THEN {p \in 8..Len(s) : AtCI(s, p + 1, W_spFROMsp)}
  ELSE {}

\* (?:\s+LIMIT|\s*$) and its longer variants, tried right after position e
EndOrLimit(s, e) == e = Len(s) \/ AtCI(s, e + 1, W_spLIMIT)

EndOrOrderOrLimit(s, e) == EndOrLimit(s, e) \/ AtCI(s, e + 1, W_spORDERBY)

EndOrAnyClause(s, e) == EndOrOrderOrLimit(s, e) \/ AtCI(s, e + 1, W_spWHERE)

\* last position of the word (run of non-space) that covers position i
WordEnd(s, i) == SkipSet(s, i, {s[k] : k \in 1..Len(s)} \ WhiteSpace) - 1

\* /FROM\s+([^\s]+(?:\s+[^\s]+)*?)(?:\s+WHERE|\s+ORDER\s+BY|\s+LIMIT|\s*$)/i
\* leftmost start; the group grows a word at a time until a terminator follows
FromMatch(s) ==
  LET S == {i \in 1..Len(s) : AtCI(s, i, W_FROMsp) /\ i + 5 <= Len(s)
                              /\ s[i + 5] \notin WhiteSpace}
      i == Min(S)
      E == {e \in (i + 5)..Len(s) : e = WordEnd(s, e) /\ EndOrAnyClause(s, e)}
  IN  IF S = {} THEN [ok |-> FALSE, path |-> <<>>]
      ELSE [ok |-> TRUE, path |-> Trim(SubSeq(s, i + 5, Min(E)))]

\* /WHERE\s+(.+?)(?:\s+ORDER\s+BY|\s+LIMIT|\s*$)/i
WhereMatch(s) ==
  LET S == {i \in 1..Len(s) : AtCI(s, i, W_WHEREsp) /\ i + 6 <= Len(s)}
      i == Min(S)
      E == {e \in (i + 6)..Len(s) : EndOrOrderOrLimit(s, e)}
  IN  IF S = {} THEN [ok |-> FALSE, text |-> <<>>]
      ELSE [ok |-> TRUE, text |-> SubSeq(s, i + 6, Min(E))]

\* /ORDER\s+BY\s+([^\s]+)\s+(ASC|DESC)(?:\s+LIMIT|\s*$)/i at start position i
OrderByAt(s, i) ==
  LET a == i + 9
      b == WordEnd(s, a)
      d == b + 2
      dirEnd == IF AtCI(s, d, W_ASC) /\ EndOrLimit(s, d + 2) THEN d + 2
                ELSE IF AtCI(s, d, W_DESC) /\ EndOrLimit(s, d + 3) THEN d + 3
                ELSE 0
  IN  [ok |-> /\ AtCI(s, i, W_ORDERBYsp) /\ a <= Len(s) /\ b >= a
              /\ b < Len(s) /\ s[b + 1] \in WhiteSpace /\ dirEnd # 0,
       field |-> SubSeq(s, a, b),
       direction |-> ToUpper(SubSeq(s, d, dirEnd))]

OrderByMatch(s) ==
  LET S == {i \in 1..Len(s) : OrderByAt(s, i).ok}
  IN  IF S = {} THEN [ok |-> FALSE, field |-> <<>>, direction |-> <<>>]
      ELSE OrderByAt(s, Min(S))

\* /LIMIT\s+(\d+)/i
LimitMatch(s) ==
  LET S == {i \in 1..Len(s) : AtCI(s, i, W_LIMITsp) /\ DigitsAt(s, i + 6, 1)}
      i == Min(S)
  IN  IF S = {} THEN [ok |-> FALSE, digits |-> <<>>]
      ELSE [ok |-> TRUE, digits |-> SubSeq(s, i + 6, SkipSet(s, i + 6, Digit) - 1)]

\* a non-null limit: the result of parseInt
LimitV(n) == [type |-> "number", n |-> n]

isCountQuery(select) ==
  Len(select) = 1 /\ select[1].type = "aggregation" /\ select[1].function = "COUNT"

\* a slip: COUNT(*) queries are not validated
CountWithOrderBy_unvalidated(selectFields, orderBy) == FALSE

\* the validation of COUNT(*) queries: must the query be rejected
CountWithOrderBy(selectFields, orderBy) == isCountQuery(selectFields) /\ orderBy # JsNull

\* the checks made once the clauses are parsed, and the object returned
Validated(selectFields, from, whereConditions, orderBy, limit) ==
  IF IsErr(whereConditions) THEN whereConditions
  ELSE IF limit # JsNull /\ limit.n < 0 THEN Err("LIMIT must be a positive integer")
  ELSE IF CountWithOrderBy(selectFields, orderBy)
       THEN Err("ORDER BY is not supported with COUNT(*) queries")
  ELSE [type |-> "plan", select |-> selectFields, from |-> from,
        where |-> whereConditions, orderBy |-> orderBy, limit |-> limit]

parseSQL(sqlText) ==
  LET normalizedSQL == Normalize(sqlText)
      selectFields  == parseSelectFields(SubSeq(normalizedSQL, 8, Min(SelectEnds(normalizedSQL))))
      fromMatch     == FromMatch(normalizedSQL)
      whereMatch    == WhereMatch(normalizedSQL)
      whereConditions == IF whereMatch.ok THEN parseWhereConditions(whereMatch.text) ELSE JsNull
      orderByMatch  == OrderByMatch(normalizedSQL)
      orderBy       == IF orderByMatch.ok
                       THEN [type |-> "orderBy", field |-> convertIdToName(orderByMatch.field),
                             direction |-> orderByMatch.direction]
                       ELSE JsNull
      limitMatch    == LimitMatch(normalizedSQL)
      limit         == IF limitMatch.ok THEN LimitV(DigitsToNat(limitMatch.digits)) ELSE JsNull
  IN  IF ~AtCI(normalizedSQL, 1, W_SELECT) THEN Err("Only SELECT queries are supported")
      ELSE IF SelectEnds(normalizedSQL) = {} THEN Err("Invalid SELECT syntax")
      ELSE IF ~fromMatch.ok THEN Err("Invalid FROM syntax")
      ELSE Validated(selectFields, fromMatch.path, whereConditions, orderBy, limit)

(***************************************************************************)
(* The backend (Firestore), seen through the calls the translator makes.  *)
(* A query is the sequence of builder calls made so far.  A document is   *)
(* [id, data] with data a function from field names to values.            *)
(***************************************************************************)
\* the printable ASCII characters in code order (the backquote left out)
AsciiSeq ==
  <<
    " ", "!", "\"", "#", "$", "%", "&", "'", "(", ")", "*", "+", ",", "-", ".", "/",
    "0", "1", "2", "3", "4", "5", "6", "7", "8", "9", ":", ";", "<", "=", ">", "?",
    "@", "A", "B", "C", "D", "E", "F", "G", "H", "I", "J", "K", "L", "M", "N", "O",
    "P", "Q", "R", "S", "T", "U", "V", "W", "X", "Y", "Z", "[", "\\", "]", "^", "_",
    "a", "b", "c", "d", "e", "f", "g", "h", "i", "j", "k", "l", "m", "n", "o",
    "p", "q", "r", "s", "t", "u", "v", "w", "x", "y", "z", "{", "|", "}", "~"
  >>

CharCode(c) == CHOOSE i \in 1..Len(AsciiSeq) : AsciiSeq[i] = c

RECURSIVE Pow10(_)
Pow10(n) == IF n <= 0 THEN 1 ELSE 10 * Pow10(n - 1)

\* -1, 0, 1 as a < b, a = b, a > b for two finite numbers
NumCmp(a, b) ==
  LET lo == IF a.e < b.e THEN a.e ELSE b.e
      x  == a.m * Pow10(a.e - lo)
      y  == b.m * Pow10(b.e - lo)
  IN  IF x < y THEN -1 ELSE IF x = y THEN 0 ELSE 1

RECURSIVE StrCmp(_, _)
StrCmp(a, b) ==
  IF a = <<>> /\ b = <<>> THEN 0
  ELSE IF a = <<>> THEN -1
  ELSE IF b = <<>> THEN 1
  ELSE IF CharCode(a[1]) < CharCode(b[1]) THEN -1
  ELSE IF CharCode(a[1]) > CharCode(b[1]) THEN 1
  ELSE StrCmp(Tail(a), Tail(b))

\* the order of two values of one type; 2 when they cannot be compared
ValueCmp(a, b) ==
  IF a.type # b.type THEN 2
  ELSE IF a.type = "String" THEN StrCmp(a.s, b.s)
  ELSE IF a.type = "Boolean" THEN (IF a.b = b.b THEN 0 ELSE IF b.b THEN -1 ELSE 1)
  ELSE IF a.type = "Null" THEN 0
  ELSE IF a.type = "Number" /\ a.kind = "finite" /\ b.kind = "finite" THEN NumCmp(a, b)
  ELSE IF a.type = "Number" /\ a.kind = "finite" /\ b.kind = "Infinity" THEN 0 - b.m
  ELSE 2

HasField(doc, f) == f = W_name \/ f \in DOMAIN doc.data

FieldValue(doc, f) == IF f = W_name THEN StringV(doc.id) ELSE doc.data[f]

\* does the document pass one where(field, op, value) filter
Passes(doc, c) ==
  /\ HasField(doc, c.field)
  /\ LET r == ValueCmp(FieldValue(doc, c.field), c.value)
     IN  CASE c.operator = "==" -> r = 0
           [] c.operator = "!=" -> r # 0
           [] c.operator = "<"  -> r = -1
           [] c.operator = "<=" -> r \in {-1, 0}
           [] c.operator = ">"  -> r = 1
           [] c.operator = ">=" -> r \in {0, 1}
           [] OTHER -> FALSE

TypeRank(v) ==
  CASE v.type = "Null" -> 0 [] v.type = "Boolean" -> 1 [] v.type = "Number" -> 2
    [] v.type = "Timestamp" -> 3 [] OTHER -> 4

\* the backend's order of two documents on a field, ties broken by the id
DocBefore(d1, d2, f) ==
  LET v1 == FieldValue(d1, f)
      v2 == FieldValue(d2, f)
  IN  IF TypeRank(v1) # TypeRank(v2) THEN TypeRank(v1) < TypeRank(v2)
      ELSE IF ValueCmp(v1, v2) \in {-1, 1} THEN ValueCmp(v1, v2) = -1
      ELSE StrCmp(d1.id, d2.id) = -1

RECURSIVE SortDocs(_, _)
SortDocs(ds, f) ==
  IF ds = <<>> THEN <<>>
  ELSE LET k == CHOOSE i \in 1..Len(ds) :
                  \A j \in 1..Len(ds) : j = i \/ DocBefore(ds[i], ds[j], f)
       IN  <<ds[k]>> \o SortDocs(SubSeq(ds, 1, k - 1) \o SubSeq(ds, k + 1, Len(ds)), f)

Reverse(s) == [i \in 1..Len(s) |-> s[Len(s) + 1 - i]]

RECURSIVE SelectSeq2(_, _)
SelectSeq2(ds, cs) ==
  IF ds = <<>> THEN <<>>
  ELSE (IF \A i \in 1..Len(cs) : cs[i].op # "where" \/ Passes(Head(ds), cs[i])
        THEN <<Head(ds)>> ELSE <<>>) \o SelectSeq2(Tail(ds), cs)

CallsOf(cs, op) == {i \in 1..Len(cs) : cs[i].op = op}

\* the documents a query returns: the collection of the path, filtered by
\* every where(), ordered by orderBy() (else by id), cut by limit()
W_desc == <<"d","e","s","c">>

W_c == <<"c">>

Collection(path, stored) == IF path = W_c THEN stored ELSE <<>>

Matching(cs, stored) == SelectSeq2(Collection(cs[1].path, stored), cs)

\* the last orderBy() of the query applied to the matching documents m
Ordered(cs, m, O) ==
  IF O = {} THEN m
  ELSE IF cs[Max(O)].direction = W_desc
  THEN Reverse(SortDocs(SelectSeq(m, LAMBDA d : HasField(d, cs[Max(O)].field)), cs[Max(O)].field))
  ELSE SortDocs(SelectSeq(m, LAMBDA d : HasField(d, cs[Max(O)].field)), cs[Max(O)].field)

\* the last limit() of the query applied to the ordered documents
Limited(cs, ordered, L) ==
  IF L = {} \/ cs[Max(L)].n >= Len(ordered) THEN ordered
  ELSE SubSeq(ordered, 1, cs[Max(L)].n)

Snapshot(cs, stored) ==
  Limited(cs, Ordered(cs, Matching(cs, stored), CallsOf(cs, "orderBy")), CallsOf(cs, "limit"))

(***************************************************************************)
(* applySimpleCondition, applyWhereConditions: the result is the query    *)
(* with the where() calls made, and the Error thrown if one was           *)
(***************************************************************************)
Built(cs) == [calls |-> cs, error |-> JsNull]

Thrown(cs, m) == [calls |-> cs, error |-> Err(m)]

WhereCall(field, op, value) == [op |-> "where", field |-> field, operator |-> op, value |-> value]

applySimpleCondition(query, condition) ==
  IF condition.operator = <<"=">> THEN Built(Append(query, WhereCall(condition.field, "==", condition.value)))
  ELSE IF condition.operator = <<"!", "=">> THEN Built(Append(query, WhereCall(condition.field, "!=", condition.value)))
  ELSE IF condition.operator = <<">">> THEN Built(Append(query, WhereCall(condition.field, ">", condition.value)))
  ELSE IF condition.operator = <<">", "=">> THEN Built(Append(query, WhereCall(condition.field, ">=", condition.value)))
  ELSE IF condition.operator = <<"<">> THEN Built(Append(query, WhereCall(condition.field, "<", condition.value)))
  ELSE IF condition.operator = <<"<", "=">> THEN Built(Append(query, WhereCall(condition.field, "<=", condition.value)))
  ELSE Thrown(query, "Unsupported operator")

\* a slip: OR is translated like AND
RECURSIVE applyWhereConditions_orAsAnd(_, _)
applyWhereConditions_orAsAnd(query, conditions) ==
  IF conditions = JsNull THEN Built(query)
  ELSE IF conditions.type = "condition" THEN applySimpleCondition(query, conditions)
  ELSE IF conditions.type = "logical" /\ conditions.operator \in {W_AND, W_OR}
  THEN LET l == applyWhereConditions_orAsAnd(query, conditions.left)
       IN  IF l.error # JsNull THEN l
           ELSE applyWhereConditions_orAsAnd(l.calls, conditions.right)
  ELSE Built(query)

RECURSIVE applyWhereConditions(_, _)
applyWhereConditions(query, conditions) ==
  IF conditions = JsNull THEN Built(query)
  ELSE IF conditions.type = "condition" THEN applySimpleCondition(query, conditions)
  ELSE IF conditions.type = "logical" /\ conditions.operator = W_AND
  THEN LET l == applyWhereConditions(query, conditions.left)
       IN  IF l.error # JsNull THEN l ELSE applyWhereConditions(l.calls, conditions.right)
  ELSE IF conditions.type = "logical" /\ conditions.operator = W_OR
  THEN Thrown(query, "OR operations are not yet supported in this implementation")
  ELSE Built(query)

(***************************************************************************)
(* executeQuery up to its await, and executeCountQuery up to its await:   *)
(* the backend calls made, and the Error thrown if one was                *)
(***************************************************************************)
Truthy(limit) == limit # JsNull /\ limit.n # 0

\* a slip: the count is taken by reading the rows, after the LIMIT is set
executeCountQuery_rows(query, whereConditions) ==
  LET w == applyWhereConditions(query, whereConditions)
  IN  IF w.error # JsNull THEN w
      ELSE Built(w.calls \o <<[op |-> "limit", n |-> 1], [op |-> "get"]>>)

executeCountQuery(query, whereConditions) ==
  LET w == applyWhereConditions(query, whereConditions)
  IN  IF w.error # JsNull THEN w
      ELSE Built(w.calls \o <<[op |-> "aggregate"], [op |-> "aggregateGet"]>>)

\* a slip: the ordering is set on the collection before the filters are applied
executeQuery_orderByFirst(parsed) ==
  LET query == <<[op |-> "collection", path |-> parsed.from]>>
      q0 == IF parsed.orderBy # JsNull
            THEN Append(query, [op |-> "orderBy", field |-> parsed.orderBy.field,
                                direction |-> ToLower(parsed.orderBy.direction)])
            ELSE query
      w  == applyWhereConditions(q0, parsed.where)
      q2 == IF Truthy(parsed.limit)
            THEN Append(w.calls, [op |-> "limit", n |-> parsed.limit.n])
            ELSE w.calls
  IN  IF isCountQuery(parsed.select) THEN executeCountQuery(query, parsed.where)
      ELSE IF w.error # JsNull THEN w
      ELSE Built(Append(q2, [op |-> "get"]))

executeQuery(parsed) ==
  LET query == <<[op |-> "collection", path |-> parsed.from]>>
      w  == applyWhereConditions(query, parsed.where)
      q1 == IF parsed.orderBy # JsNull
            THEN Append(w.calls, [op |-> "orderBy", field |-> parsed.orderBy.field,
                                  direction |-> ToLower(parsed.orderBy.direction)])
            ELSE w.calls
      q2 == IF Truthy(parsed.limit)
            THEN Append(q1, [op |-> "limit", n |-> parsed.limit.n])
            ELSE q1
  IN  IF isCountQuery(parsed.select) THEN executeCountQuery(query, parsed.where)
      ELSE IF w.error # JsNull THEN w
      ELSE Built(Append(q2, [op |-> "get"]))

(***************************************************************************)
(* The rows built from the snapshot (executeQuery after its await)        *)
(***************************************************************************)
\* a text of the form MM/DD/YY hh:mm:ss for the instant v, in local time
DateText(v) == [type |-> "DateText", of |-> v]

\* JSON.stringify(v, null, 2)
JsonText(v) == [type |-> "JsonText", of |-> v]

Falsy(v) ==
  \/ v.type = "Null"
  \/ v.type = "Boolean" /\ ~v.b
  \/ v.type = "String" /\ v.s = <<>>
  \/ v.type = "Number" /\ (v.kind = "NaN" \/ (v.kind = "finite" /\ v.m = 0))

\* new Date(text) is valid; exact for the texts the stored documents hold
\* (words without digits, and texts of the four shapes of parseTimestamp)
DateOf(value, date) == IF date # NoTimestamp THEN DateText(date) ELSE value

formatToDate(value) ==
  IF Falsy(value) THEN value
  ELSE IF value.type = "Timestamp" THEN DateText(value)
  ELSE IF value.type = "String"
       THEN DateOf(value, parseTimestamp(value.s))
  ELSE IF value.type = "Number"
       THEN (IF value.kind = "finite" THEN DateText(value) ELSE value)
  ELSE value

DisplayName(open, fieldName) == open \o fieldName \o <<")">>

\* data.__name__ = doc.id when options.includeId
DocData(doc, inc) == IF inc THEN (W_name :> StringV(doc.id)) @@ doc.data ELSE doc.data

Put(row, key, value) == (key :> value) @@ row

\* one step of parsed.select.forEach
ProjectItem(row, fieldObj, doc, inc) ==
  LET data == DocData(doc, inc)
      f    == fieldObj.field
  IN  IF fieldObj.type \in {"string", "field"} THEN
        IF f = W_name /\ inc THEN Put(row, f, StringV(doc.id))
        ELSE IF f \in DOMAIN data THEN Put(row, f, data[f])
        ELSE row
      ELSE IF fieldObj.type = "function" /\ fieldObj.function = "toDate" THEN
        IF f = W_name /\ inc THEN Put(row, DisplayName(W_toDate, f), StringV(doc.id))
        ELSE IF f \in DOMAIN data THEN Put(row, DisplayName(W_toDate, f), formatToDate(data[f]))
        ELSE Put(row, DisplayName(W_toDate, f), NullV)
      ELSE IF fieldObj.type = "function" /\ fieldObj.function = "prettyJson" THEN
        IF f = W_star \/ f = W_name
        THEN Put(row, DisplayName(W_prettyJson, f),
                 JsonText(IF inc THEN (W_id :> StringV(doc.id)) @@ data ELSE data))
        ELSE IF f \in DOMAIN data THEN Put(row, DisplayName(W_prettyJson, f), JsonText(data[f]))
        ELSE Put(row, DisplayName(W_prettyJson, f), NullV)
      ELSE row

RECURSIVE Project(_, _, _, _)
Project(row, select, doc, inc) ==
  IF select = <<>> THEN row
  ELSE Project(ProjectItem(row, Head(select), doc, inc), Tail(select), doc, inc)

\* an empty row: a function with no key
EmptyRow == [k \in {} |-> NullV]

RowOf(doc, select, inc) ==
  IF \E i \in 1..Len(select) : select[i].type = "string" /\ select[i].field = W_star
  THEN DocData(doc, inc)
  ELSE Project(EmptyRow, select, doc, inc)

\* snapshot.forEach: one row for each document
Rows(snap, select, inc) == [i \in 1..Len(snap) |-> RowOf(snap[i], select, inc)]

\* the rows query() resolves to once the backend has answered
Results(parsed, cs, stored, inc) ==
  IF isCountQuery(parsed.select)
  THEN <<(W_COUNT :> NumberV(Len(Matching(cs, stored)), 0))>>
  ELSE Rows(Snapshot(cs, stored), parsed.select, inc)

(***************************************************************************)
(* Bounds and the inputs drawn within them                                 *)
(***************************************************************************)
\* the stored collection holds 0..MaxDocs documents
MaxDocs == 2

\* LIMIT clauses carry the numbers 0..MaxLimit
MaxLimit == 2

W_a == <<"a">>

W_b == <<"b">>

W_city == <<"c","i","t","y">>

W_createdAt == <<"c","r","e","a","t","e","d","A","t">>

W_day == <<"d","a","y">>

\* the i-th stored document: a number field a, on odd i a second number
\* field b and a timestamp createdAt, on even i a text field city and a text
\* field day that holds a date
Doc(i) ==
  [id   |-> <<"u", DigitSeq[i + 1]>>,
   data |-> IF i % 2 = 1
            THEN (W_a :> NumberV(i, 0)) @@ (W_b :> NumberV(2, 0))
                 @@ (W_createdAt :> TimestampV(2025, 10, i, 10, 20, 30, 0, "utc"))
            ELSE (W_a :> NumberV(i, 0)) @@ (W_city :> StringV(<<"N","Y">>))
                 @@ (W_day :> StringV(<<"2","0","2","5","-","1","0","-","1","0">>))]

Stores == {[i \in 1..n |-> Doc(i)] : n \in 0..MaxDocs}

RECURSIVE NatToDigits(_)
NatToDigits(n) ==
  IF n < 10 THEN <<DigitSeq[n + 1]>> ELSE NatToDigits(n \div 10) \o <<DigitSeq[(n % 10) + 1]>>

SelectTexts ==
  { <<"S","E","L","E","C","T"," ","*"," ","F","R","O","M"," ","c">>,
    <<"S","E","L","E","C","T"," ","C","O","U","N","T","(","*",")"," ","F","R","O","M"," ","c">>,
    <<"s","e","l","e","c","t"," ","c","o","u","n","t","(","*",")"," ","f","r","o","m"," ","c">>,
    <<"S","E","L","E","C","T"," ","i","d",","," ","t","o","D","a","t","e","(","c","r","e","a","t","e","d","A","t",")"," ","F","R","O","M"," ","c">>,
    <<"S","E","L","E","C","T"," ","a",","," ","c","i","t","y",","," ","p","r","e","t","t","y","J","s","o","n","(","i","d",")"," ","F","R","O","M"," ","c">>,
    <<"S","E","L","E","C","T"," ","i","d",","," ","a",","," ","c","i","t","y"," ","F","R","O","M"," ","c">>,
    <<"S","E","L","E","C","T"," ","a",","," ","c","i","t","y"," ","F","R","O","M"," ","c">>,
    <<"S","E","L","E","C","T"," ","t","o","d","a","t","e","(","i","d",")",","," ","t","o","D","a","t","e","(","c","i","t","y",")",","," ","t","o","D","a","t","e","("," ","d","a","y"," ",")",","," ","t","o","D","a","t","e","(","a",")",","," ","T","O","D","A","T","E","(","c","r","e","a","t","e","d","A","t",")"," ","F","R","O","M"," ","c">> }

WhereTexts ==
  { <<>>,
    <<" ","W","H","E","R","E"," ","a"," ","="," ","1">>,
    <<" ","W","H","E","R","E"," ","a"," ","="," ","1"," ","O","R"," ","b"," ","="," ","2">>,
    <<" ","W","H","E","R","E"," ","a"," ",">","="," ","1"," ","A","N","D"," ","b"," ","="," ","2"," ","o","r"," ","c","i","t","y"," ","="," ","'","N","Y","'">>,
    <<" ","W","H","E","R","E"," ","a"," ",">"," ","0"," ","A","N","D"," ","c","i","t","y"," ","="," ","'","N","Y","'">>,
    <<" ","W","H","E","R","E"," ","i","d","=","\"","u","1","\"">>,
    <<" ","W","H","E","R","E"," ","i","d"," ","="," ","\"","u","1","\""," ","A","N","D"," ","a","<","=","2">>,
    <<" ","W","H","E","R","E"," ","a"," ","L","I","K","E"," ","1"," ","A","N","D"," ","b"," ","="," ","2"," ","O","R"," ","a"," ","="," ","1">>,
    <<" ","W","H","E","R","E"," ","a"," ","="," ","1"," ","A","N","D">> }

OrderTexts ==
  { <<>>,
    <<" ","O","R","D","E","R"," ","B","Y"," ","a"," ","A","S","C">>,
    <<" ","O","R","D","E","R"," ","B","Y"," ","i","d"," ","d","e","s","c">>,
    <<" ","O","R","D","E","R"," ","B","Y"," ","a">> }

LimitTexts ==
  { <<>>, <<" ","L","I","M","I","T"," ","-","1">>, <<" ","L","I","M","I","T"," ","a","b","c">> }
  \cup {<<" ","L","I","M","I","T"," ">> \o NatToDigits(n) : n \in 0..MaxLimit}

OtherTexts ==
  { <<"D","E","L","E","T","E"," ","F","R","O","M"," ","c">>,
    <<"S","E","L","E","C","T"," ","*"," ","F","R","O","M">>,
    <<" "," ","S","E","L","E","C","T"," "," "," ","*"," "," "," ","F","R","O","M"," "," "," ","c"," "," "," ","W","H","E","R","E"," "," ","a"," "," ","="," "," ","1"," "," ">>,
    <<"S","E","L","E","C","T"," ","*"," ","F","R","O","M"," ","G","R","O","U","P"," ","c">>,
    <<"S","E","L","E","C","T"," ","*"," ","F","R","O","M"," ","W","H","E","R","E"," ","a"," ","="," ","1">>,
    <<"S","E","L","E","C","T"," ","*"," ","F","R","O","M"," ","L","I","M","I","T"," ","1">>,
    <<"S","E","L","E","C","T","E","D"," ","*"," ","F","R","O","M"," ","c">>,
    <<"S","E","L","E","C","T"," ","F","R","O","M"," ","c">> }

Queries ==
  {s \o wh \o o \o l : s \in SelectTexts, wh \in WhereTexts, o \in OrderTexts, l \in LimitTexts}
  \cup OtherTexts

(***************************************************************************)
(* The query machine: query(sql, options) runs parseSQL and executeQuery  *)
(* up to the await of the backend's get(); the backend then answers or    *)
(* fails; the caller takes the outcome and may submit the next text.      *)
(***************************************************************************)
BackendError == Err("backend failure")

Init ==
  /\ sql = <<>> /\ includeId = FALSE /\ pc = "idle"
  /\ plan = JsNull /\ calls = <<>> /\ rows = <<>> /\ err = JsNull
  /\ docs \in Stores
  /\ fn = "none" /\ arg = <<>> /\ out = JsNull
  /\ history = JsNull /\ saved = <<>> /\ lines = <<>> /\ closed = FALSE

\* executeQuery(parsed) up to its await
Started(parsed, built) == [plan |-> parsed, calls |-> built.calls, error |-> built.error]

\* a slip: the collection is opened before the outcome of the parse is looked at
query_openFirst(parsed) ==
  IF IsErr(parsed)
  THEN [plan |-> JsNull, calls |-> <<[op |-> "collection", path |-> <<>>]>>, error |-> parsed]
  ELSE Started(parsed, executeQuery(parsed))

\* query(sql, options) once sql is parsed: a parse error is thrown as it is
query(parsed) ==
  IF IsErr(parsed) THEN [plan |-> JsNull, calls |-> <<>>, error |-> parsed]
  ELSE Started(parsed, executeQuery(parsed))

Query(text, inc) ==
  /\ pc = "idle"
  /\ sql' = text /\ includeId' = inc
  /\ \E started \in {query(parseSQL(text))} :
       /\ plan' = started.plan /\ calls' = started.calls /\ err' = started.error
       /\ pc' = IF started.error # JsNull THEN "failed" ELSE "awaiting"
  /\ UNCHANGED <<rows, docs, fn, arg, out>>
  /\ UNCHANGED shellVars

Resolve ==
  /\ pc = "awaiting"
  /\ rows' = Results(plan, calls, docs, includeId)
  /\ pc' = "done"
  /\ UNCHANGED <<sql, includeId, plan, calls, err, docs, fn, arg, out>>
  /\ UNCHANGED shellVars

\* a slip: the failed call is issued once more and awaited again
Reject_retry ==
  /\ pc = "awaiting"
  /\ calls' = Append(calls, calls[Len(calls)])
  /\ UNCHANGED <<sql, includeId, pc, plan, rows, err, docs, fn, arg, out>>
  /\ UNCHANGED shellVars

Reject ==
  /\ pc = "awaiting"
  /\ err' = BackendError
  /\ pc' = "failed"
  /\ UNCHANGED <<sql, includeId, plan, calls, rows, docs, fn, arg, out>>
  /\ UNCHANGED shellVars

NextLine ==
  /\ pc \in {"done", "failed"}
  /\ sql' = <<>> /\ includeId' = FALSE /\ pc' = "idle"
  /\ plan' = JsNull /\ calls' = <<>> /\ rows' = <<>> /\ err' = JsNull
  /\ UNCHANGED <<docs, fn, arg, out>>
  /\ UNCHANGED shellVars

Next ==
  \/ \E text \in Queries, inc \in BOOLEAN : Query(text, inc)
  \/ Resolve
  \/ Reject
  \/ NextLine

Spec == Init /\ [][Next]_vars

(***************************************************************************)
(* The pure functions of the parser, applied to inputs drawn in Init      *)
(***************************************************************************)
\* literal tokens: every text of at most MaxValueLen characters of ValueAlphabet
MaxValueLen == 4

\* field names: every text of at most MaxNameLen characters of NameAlphabet
MaxNameLen == 3

\* where clauses: at most MaxPieces pieces, a quoted piece holding at most
\* MaxQuotedLen characters between its quotes
MaxPieces == 2

MaxQuotedLen == 2

\* token sequences of at most MaxTokens tokens
MaxTokens == 3

Texts(alphabet, n) == UNION {[1..k -> alphabet] : k \in 0..n}

ValueAlphabet == {"\"", "'", "1", "-", " ", "e"}

NotableValues ==
  { <<"\"","t","r","u","e","\"">>, <<"t","r","u","e">>, <<"T","R","U","E">>, <<"'","F","a","l","s","e","'">>, <<"f","a","l","s","e">>, <<"\"","n","u","l","l","\"">>, <<"n","u","l","l">>, <<"N","U","L","L">>,
    <<"2","0","2","5","-","1","0","-","1","0">>, <<"\"","2","0","2","5","-","1","0","-","1","0","\"">>, <<"'","2","0","2","5","-","1","0","-","1","0","'">>, <<"\"","2","0","2","5","-","1","3","-","4","5","\"">>, <<"2","0","2","5","-","1","3","-","4","5">>,
    <<"\"","2","0","2","5","-","1","0","-","1","0","T","1","0",":","2","0",":","3","0","Z","\"">>, <<"\"","2","0","2","5","-","1","0","-","1","0","T","1","0",":","2","0",":","3","0",".","1","2","3","\"">>, <<"\"","2","0","2","5","-","1","0","-","1","0","T","2","5",":","0","0",":","0","0","\"">>,
    <<"\"","1","0","-","1","0","-","2","0","2","5","\"">>, <<"\"","1","3","-","1","0","-","2","0","2","5","\"">>, <<"\"","O","c","t","o","b","e","r"," ","1","0",","," ","2","0","2","5","\"">>, <<"\"","O","c","t","o","b","e","r"," ","3","2",","," ","2","0","2","5","\"">>,
    <<"2","5">>, <<"\"","2","5","\"">>, <<" ","2",".","5","0"," ">>, <<"-","1","e","3">>, <<"'","N","Y","'">>, <<"N","Y">>, <<"\"","i","t","'","s","\"">>, <<"'","a","b","c">>, <<"\"","a","b","c","'">>,
    <<"0","x","1","A">>, <<"I","n","f","i","n","i","t","y">> }

ValueInputs == Texts(ValueAlphabet, MaxValueLen) \cup NotableValues

NameAlphabet == {"i", "d", "I", "D", "_"}

NameInputs ==
  Texts(NameAlphabet, MaxNameLen) \cup {W_name, <<"n","a","m","e">>, <<"i","d","s">>, <<"i","d"," ">>, <<"c","r","e","a","t","e","d","A","t">>}

\* a quoted piece: q, then characters other than q, then q
QuotedPieces(q, n) ==
  {<<q>> \o c \o <<q>> : c \in Texts(({"A", " "} \cup QuoteChars) \ {q}, n)}

BarePieces == {<<"f","i","e","l","d">>, <<"=">>, <<"A","N","D">>}

NotablePieces == {<<"\"","A"," ","A","N","D"," ","B","\"">>, <<"'","s","a","y"," ","\"","a"," ","="," ","b","\""," ","O","R"," ","n","o","t","'">>, <<"\"","i","t","'","s"," "," ","a",">","1","\"">>}

Pieces ==
  QuotedPieces("\"", MaxQuotedLen) \cup QuotedPieces("'", MaxQuotedLen)
  \cup BarePieces \cup NotablePieces

\* pieces with an operator glued to a name, each with the tokens it stands for
GluedSplits ==
  { [glued |-> <<"n","a","m","e","=","\"","A"," "," ","B","\"">>, tokens |-> <<<<"n","a","m","e">>, <<"=">>, <<"\"","A"," "," ","B","\"">>>>],
    [glued |-> <<"i","d","=","'","i","t"," ","i","s"," ","\"","x","\"","'">>, tokens |-> <<<<"i","d">>, <<"=">>, <<"'","i","t"," ","i","s"," ","\"","x","\"","'">>>>],
    [glued |-> <<"a","g","e",">","2","5">>, tokens |-> <<<<"a","g","e">>, <<">">>, <<"2","5">>>>],
    [glued |-> <<"c","i","t","y","=","'","N","e","w"," ","Y","o","r","k","'">>, tokens |-> <<<<"c","i","t","y">>, <<"=">>, <<"'","N","e","w"," ","Y","o","r","k","'">>>>],
    [glued |-> <<"a",">","=","1">>, tokens |-> <<<<"a">>, <<">","=">>, <<"1">>>>],
    [glued |-> <<"a","<","=","1">>, tokens |-> <<<<"a">>, <<"<","=">>, <<"1">>>>],
    [glued |-> <<"a","!","=","1">>, tokens |-> <<<<"a">>, <<"!","=">>, <<"1">>>>],
    [glued |-> <<"_","b","2","<","1">>, tokens |-> <<<<"_","b","2">>, <<"<">>, <<"1">>>>],
    [glued |-> <<"a","=">>, tokens |-> <<<<"a">>, <<"=">>>>],
    [glued |-> <<"a","=","=","1">>, tokens |-> <<<<"a">>, <<"=","=">>, <<"1">>>>],
    [glued |-> <<"a","<",">","1">>, tokens |-> <<<<"a">>, <<"<",">">>, <<"1">>>>],
    [glued |-> <<"a","=","!","1">>, tokens |-> <<<<"a">>, <<"=","!">>, <<"1">>>>],
    [glued |-> <<"a",">","\"","x","<","y","\"">>, tokens |-> <<<<"a">>, <<">">>, <<"\"","x","<","y","\"">>>>] }

GluedPieces == {g.glued : g \in GluedSplits}

\* pieces that hold an operator and are left whole: they begin with a quote,
\* a digit or an operator, or their name is not followed by an operator
WholePieces == {<<"'","a","'","=","1">>, <<"\"","x","\"",">","2">>, <<"1","a","=","2">>, <<"=","1">>, <<"a",".","b","=","1">>, <<"a","-","b",">","1">>}

NotableClauses ==
  { <<<<"n","a","m","e","=","\"","A"," "," ","B","\"">>>>,
    <<<<"i","d","=","'","i","t"," ","i","s"," ","\"","x","\"","'">>, <<"A","N","D">>, <<"f","i","e","l","d">>, <<"=">>, <<"\"","A"," ","A","N","D"," ","B","\"">>>>,
    <<<<"f","i","e","l","d">>, <<"=">>, <<"\"","A"," ","A","N","D"," ","B","\"">>>>,
    <<<<"f","i","e","l","d">>, <<"=">>, <<"'","s","a","y"," ","\"","a"," ","="," ","b","\""," ","O","R"," ","n","o","t","'">>>>,
    <<<<"f","i","e","l","d">>, <<"=">>, <<"\"","i","t","'","s"," "," ","a",">","1","\"">>, <<"A","N","D">>, <<"f","i","e","l","d">>, <<"=">>, <<"'","A","'">>>> }

GluedClauses ==
  {<<g.glued>> : g \in GluedSplits} \cup {g.tokens : g \in GluedSplits}
  \cup {<<p>> : p \in WholePieces}
  \cup {<<g.glued, <<"A","N","D">>, p>> : g \in GluedSplits, p \in WholePieces}

PieceInputs ==
  {[pieces |-> ps, sep |-> sp] :
     ps \in (Texts(Pieces, MaxPieces) \ {<<>>}) \cup NotableClauses \cup GluedClauses,
     sp \in {<<" ">>, <<" ", " ">>, <<"\t">>}}

RECURSIVE Join(_, _)
Join(ps, sp) ==
  IF ps = <<>> THEN <<>>
  ELSE IF Len(ps) = 1 THEN ps[1]
  ELSE ps[1] \o sp \o Join(Tail(ps), sp)

\* select lists of at most MaxItems items
MaxItems == 2

ItemTexts == {<<"*">>, <<"C","O","U","N","T","(","*",")">>, <<"c","o","u","n","t","(","*",")">>, <<"a">>, <<"i","d">>, <<"t","o","D","a","t","e","(","a",")">>, <<"P","R","E","T","T","Y","J","S","O","N","("," ","i","d"," ",")">>}

ClauseTails ==
  {<<>>, <<" ","O","R","D","E","R"," ","B","Y"," ","a"," ","D","E","S","C">>, <<" ","L","I","M","I","T"," ","0">>, <<" ","L","I","M","I","T"," ","1","2">>, <<" ","W","H","E","R","E"," ","a"," ","="," ","1"," ","O","R","D","E","R"," ","B","Y"," ","i","d"," ","a","s","c"," ","L","I","M","I","T"," ","2">>}

\* texts without quotes that are neither dates nor numbers: a word, words
\* one or several spaces apart, and words among which a keyword stands
QuotedLiterals ==
  {<<"N","Y">>, <<"N","e","w"," ","Y","o","r","k">>, <<"a"," "," ","b">>, <<"s","a","y"," ","W","H","E","R","E"," ","n","o","w">>, <<"x"," ","O","R","D","E","R"," ","B","Y"," ","y"," ","a","s","c">>, <<"a"," ","L","I","M","I","T"," ","5"," ","b">>, <<"L","I","M","I","T"," ","5">>}

LiteralQuery(s) == <<"S","E","L","E","C","T"," ","*"," ","F","R","O","M"," ","c"," ","W","H","E","R","E"," ","f"," ","="," ","\"">> \o s \o <<"\"">>

SqlInputs ==
  {<<"S","E","L","E","C","T"," ">> \o Join(items, sep) \o <<" ","F","R","O","M"," ","c">> \o tail :
     items \in Texts(ItemTexts, MaxItems) \ {<<>>}, sep \in {<<",">>, <<" ",","," ">>}, tail \in ClauseTails}
  \cup {LiteralQuery(s) : s \in QuotedLiterals}

TokenSet == {<<"i","d">>, <<"a","g","e">>, <<">">>, <<"A","N","D">>, <<"o","r">>, <<"2","5">>, <<"'","N","Y","'">>}

\* conditions of three tokens (one with a quoted connective as its value, one
\* with a connective in its middle) chained by connectives of any case
ConditionTriples ==
  { <<<<"a">>, <<"=">>, <<"1">>>>, <<<<"i","d">>, <<">">>, <<"'","A","N","D","'">>>>, <<<<"b">>, <<"o","r">>, <<"2">>>> }

Connectives == {<<"A","N","D">>, <<"o","r">>, <<"O","r">>}

ChainInputs ==
  {c1 \o <<k1>> \o c2 : c1, c2 \in ConditionTriples, k1 \in Connectives}
  \cup {c1 \o <<k1>> \o c2 \o <<k2>> \o c3 :
          c1, c2, c3 \in ConditionTriples, k1, k2 \in Connectives}
  \cup {<<<<"a">>, <<"=">>, <<"1">>, <<"A","N","D">>>>, <<<<"A","N","D">>, <<"a">>, <<"=">>, <<"1">>>>, <<<<"a">>, <<"A","N","D">>, <<"b">>>>,
        <<<<"a">>, <<"=">>, <<"'","A","N","D","'">>, <<"b">>>>, <<<<"a">>, <<"=">>, <<"\"","O","R","\"">>, <<"A","N","D">>, <<"b">>, <<"=">>, <<"2">>>>}

TokenInputs == Texts(TokenSet, MaxTokens) \cup ChainInputs

ClauseInputs ==
  { <<"a","g","e"," ",">"," ","2","5"," ","A","N","D"," ","c","i","t","y"," ","="," ","'","N","Y","'">>,
    <<"a","g","e",">","2","5"," ","a","n","d"," ","c","i","t","y","=","'","N","Y","'">>,
    <<"i","d"," ","="," ","\"","u","1","\"">>,
    <<"a"," ","="," ","1"," ","O","R"," ","b"," ","="," ","2">>,
    <<"a"," ","="," ","1"," ","A","N","D"," ","b"," ","="," ","2"," ","O","R"," ","c"," ","="," ","3">>,
    <<"a"," ","="," ","1"," ","O","R"," ","b"," ","="," ","2"," ","A","N","D"," ","c"," ","="," ","3">>,
    <<"a"," ","="," ","'","A","N","D","'"," ","a","n","d"," ","b"," ","="," ","\"","x"," ","O","R"," ","y","\"">>,
    <<"a"," ","="," ","1"," ","A","N","D">>,
    <<"a"," ","O","R"," ","b">> }

(***************************************************************************)
(* The counting sub-grammar of the COUNT command: splitByAnd                *)
(***************************************************************************)
\* the loop of splitByAnd from character i on;
\* st = [parts, current, inQuotes, quoteChar]
RECURSIVE SplitFrom(_, _, _)
SplitFrom(clause, i, st) ==
  IF i > Len(clause) THEN st
  ELSE IF ~st.inQuotes /\ clause[i] \in QuoteChars
  THEN SplitFrom(clause, i + 1,
                 [st EXCEPT !.inQuotes = TRUE, !.quoteChar = clause[i],
                            !.current = Append(@, clause[i])])
  ELSE IF st.inQuotes /\ clause[i] = st.quoteChar
  THEN SplitFrom(clause, i + 1,
                 [st EXCEPT !.inQuotes = FALSE, !.quoteChar = NoQuote,
                            !.current = Append(@, clause[i])])
  ELSE IF ~st.inQuotes /\ ToUpper(SubSeq(clause, i, Min({i + 3, Len(clause)}))) = <<" ","A","N","D">>
  THEN SplitFrom(clause, i + 4,
                 IF Trim(st.current) # <<>>
                 THEN [st EXCEPT !.parts = Append(@, Trim(st.current)), !.current = <<>>]
                 ELSE st)
  ELSE SplitFrom(clause, i + 1, [st EXCEPT !.current = Append(@, clause[i])])

PartsOf(st) ==
  IF Trim(st.current) # <<>> THEN Append(st.parts, Trim(st.current)) ELSE st.parts

splitByAnd(clause) ==
  PartsOf(SplitFrom(clause, 1, [parts |-> <<>>, current |-> <<>>, inQuotes |-> FALSE,
                                quoteChar |-> NoQuote]))

\* WHERE clauses of at most MaxConditions conditions
MaxConditions == 2

\* conditions whose field or bare value begins with or holds the letters and,
\* and conditions with the word AND in a quoted value
CountConditions ==
  { <<"a"," ","="," ","1">>, <<"a","n","d","r","o","i","d"," ","="," ","2">>, <<"b"," ","="," ","a","n","d","r","o","i","d">>, <<"b","r","a","n","d"," ","="," ","3">>, <<"b","a","n","d"," ",">","="," ","1">>,
    <<"n","a","m","e"," ","="," ","\"","T","o","m"," ","A","N","D"," ","J","e","r","r","y","\"">>, <<"x"," ","="," ","'"," ","a","n","d"," ","'">> }

CountClauseInputs ==
  {[conditions |-> cs, connective |-> k] :
     cs \in Texts(CountConditions, MaxConditions) \ {<<>>}, k \in {<<" ","A","N","D"," ">>, <<" ","a","n","d"," ">>}}

PureFunctions ==
  {"parseValue", "convertIdToName", "tokenizeWhereClause",
   "parseConditionTokens", "parseWhereConditions", "parseSQL", "splitByAnd"}

InputsOf(f) ==
  CASE f = "parseValue" -> ValueInputs
    [] f = "convertIdToName" -> NameInputs
    [] f = "tokenizeWhereClause" -> PieceInputs
    [] f = "parseConditionTokens" -> TokenInputs
    [] f = "parseSQL" -> SqlInputs
    [] f = "splitByAnd" -> CountClauseInputs
    [] OTHER -> ClauseInputs

InitPure ==
  /\ sql = <<>> /\ includeId = FALSE /\ pc = "call"
  /\ plan = JsNull /\ calls = <<>> /\ rows = <<>> /\ err = JsNull /\ docs = <<>>
  /\ fn \in PureFunctions
  /\ arg \in InputsOf(fn)
  /\ out = JsNull
  /\ history = JsNull /\ saved = <<>> /\ lines = <<>> /\ closed = FALSE

Return(f, result) ==
  /\ pc = "call" /\ fn = f
  /\ out' = result
  /\ pc' = "return"
  /\ UNCHANGED <<sql, includeId, plan, calls, rows, err, docs, fn, arg>>
  /\ UNCHANGED shellVars

ApplyParseValue == Return("parseValue", parseValue(arg))

ApplyConvertIdToName == Return("convertIdToName", convertIdToName(arg))

ApplyTokenize == Return("tokenizeWhereClause", tokenizeWhereClause(Join(arg.pieces, arg.sep)))

ApplyParseConditionTokens == Return("parseConditionTokens", parseConditionTokens(arg))

ApplyParseWhereConditions == Return("parseWhereConditions", parseWhereConditions(arg))

ApplyParseSQL == Return("parseSQL", parseSQL(arg))

ApplySplitByAnd == Return("splitByAnd", splitByAnd(Join(arg.conditions, arg.connective)))

NextPure ==
  \/ ApplyParseValue
  \/ ApplyConvertIdToName
  \/ ApplyTokenize
  \/ ApplyParseConditionTokens
  \/ ApplyParseWhereConditions
  \/ ApplyParseSQL
  \/ ApplySplitByAnd

SpecPure == InitPure /\ [][NextPure]_vars

Returned(f) == pc = "return" /\ fn = f

(***************************************************************************)
(* The query history file: loadQueryHistory and saveQueryToHistory         *)
(***************************************************************************)
MAX_HISTORY_SIZE == 100

NewLine == "\n"

\* the index of the first ch in s at or after i, Len(s) + 1 when there is none
RECURSIVE IndexFrom(_, _, _)
IndexFrom(s, ch, i) ==
  IF i > Len(s) THEN i
  ELSE IF i >= 1 /\ s[i] = ch THEN i
  ELSE IndexFrom(s, ch, i + 1)

\* the index of the last ch in s at or before i, 0 when there is none
RECURSIVE IndexBack(_, _, _)
IndexBack(s, ch, i) ==
  IF i < 1 THEN 0
  ELSE IF i <= Len(s) /\ s[i] = ch THEN i
  ELSE IndexBack(s, ch, i - 1)

BreakIn(lo, hi, after, before) ==
  IF lo <= after /\ after <= hi THEN after
  ELSE IF lo <= before /\ before <= hi THEN before
  ELSE 0

\* the line break of content[lo..hi] nearest to its middle, 0 when it has none
Break(content, lo, hi) ==
  BreakIn(lo, hi, IndexFrom(content, NewLine, (lo + hi) \div 2),
          IndexBack(content, NewLine, (lo + hi) \div 2))

\* content.split('\n') for the part content[lo..hi], cut at its break b
RECURSIVE SplitAt(_, _, _, _)
SplitAt(content, lo, hi, b) ==
  IF b = 0 THEN <<SubSeq(content, lo, hi)>>
  ELSE SplitAt(content, lo, b - 1, Break(content, lo, b - 1))
       \o SplitAt(content, b + 1, hi, Break(content, b + 1, hi))

Split(content) == SplitAt(content, 1, Len(content), Break(content, 1, Len(content)))

NotBlank(line) == Trim(line) # <<>>

\* loadQueryHistory(): the lines of the file that are not blank, none when the
\* file does not exist (file = JsNull)
loadQueryHistory(file) ==
  IF file = JsNull THEN <<>> ELSE SelectSeq(Split(file), NotBlank)

\* history.join('\n') + '\n'
RECURSIVE JoinRange(_, _, _)
JoinRange(items, lo, hi) ==
  IF lo = hi THEN items[lo] \o <<NewLine>>
  ELSE JoinRange(items, lo, (lo + hi) \div 2) \o JoinRange(items, ((lo + hi) \div 2) + 1, hi)

JoinLines(items) ==
  IF items = <<>> THEN <<NewLine>> ELSE JoinRange(items, 1, Len(items))

\* history.filter(item => item !== query)
Without(items, text) == SelectSeq(items, LAMBDA item : item # text)

\* history.slice(0, MAX_HISTORY_SIZE) when it is longer than that
Capped(items) ==
  IF Len(items) > MAX_HISTORY_SIZE THEN SubSeq(items, 1, MAX_HISTORY_SIZE) ELSE items

\* a slip: the query is put in front without its earlier entry being removed
saveQueryToHistory_keepDuplicate(file, text) ==
  JoinLines(Capped(<<text>> \o loadQueryHistory(file)))

\* saveQueryToHistory(query): the content of the file after the call
saveQueryToHistory(file, text) ==
  JoinLines(Capped(<<text>> \o Without(loadQueryHistory(file), text)))

\* at most MaxSaves calls of saveQueryToHistory follow the earlier ones
MaxSaves == 2

\* the i-th query of earlier sessions
PriorQuery(i) == <<"S","E","L","E","C","T"," ","*"," ","F","R","O","M"," ","c"," ","L","I","M","I","T"," ">> \o NatToDigits(i)

PriorLog(k) == [i \in 1..k |-> PriorQuery(i)]

\* the file that the saves of PriorLog(k) leave, from no file at all: the k
\* queries, the last saved first
PriorFile(k) ==
  IF k = 0 THEN JsNull ELSE JoinLines([i \in 1..k |-> PriorQuery(k + 1 - i)])

PriorSizes == {0, 1, MAX_HISTORY_SIZE - 1, MAX_HISTORY_SIZE}

\* the queries saved: the oldest, a middle and the newest of the earlier ones
\* and two that were never saved
SavedQueries ==
  {PriorQuery(1), PriorQuery(MAX_HISTORY_SIZE \div 2), PriorQuery(MAX_HISTORY_SIZE),
   PriorQuery(MAX_HISTORY_SIZE + 1), <<"S","E","L","E","C","T"," ","*"," ","F","R","O","M"," ","c">>}

InitHistory ==
  /\ sql = <<>> /\ includeId = FALSE /\ pc = "call"
  /\ plan = JsNull /\ calls = <<>> /\ rows = <<>> /\ err = JsNull /\ docs = <<>>
  /\ fn = "saveQueryToHistory"
  /\ arg \in Texts(SavedQueries, MaxSaves)
  /\ out = JsNull
  /\ \E k \in PriorSizes : history = PriorFile(k) /\ saved = PriorLog(k)
  /\ lines = <<>> /\ closed = FALSE

\* the next call of saveQueryToHistory, whole
SaveQueryToHistory ==
  /\ fn = "saveQueryToHistory" /\ arg # <<>>
  /\ history' = saveQueryToHistory(history, Head(arg))
  /\ saved' = Append(saved, Head(arg))
  /\ arg' = Tail(arg)
  /\ UNCHANGED <<sql, includeId, pc, plan, calls, rows, err, docs, fn, out, lines, closed>>

NextHistory == SaveQueryToHistory

SpecHistory == InitHistory /\ [][NextHistory]_vars

(***************************************************************************)
(* The interactive shell: every input line starts the handler of           *)
(* rl.on('line'), which runs to its first return or to its await of        *)
(* query(); the backend then answers or fails each awaiting handler, in    *)
(* any order; exit, quit and the end of the input end the session.         *)
(***************************************************************************)
\* at most MaxLines lines are entered in a session
MaxLines == 2

W_exit == <<"e","x","i","t">>

W_quit == <<"q","u","i","t">>

W_HELP == <<"H","E","L","P">>

NotStarted == [plan |-> JsNull, calls |-> <<>>, error |-> JsNull]

\* what the handler of an input event has done so far: its state, the plan
\* and the backend calls of its query, the rows displayed, the error reported
\* and whether it has issued the prompt again
Handled(event, input, state, started, prompted) ==
  [event |-> event, input |-> input, state |-> state,
   plan |-> started.plan, calls |-> started.calls,
   rows |-> <<>>, error |-> JsNull, prompted |-> prompted]

\* a slip: a failed query ends the session instead of prompting again
Caught_exit(line, error) ==
  [line EXCEPT !.state = "goodbye", !.error = error]

\* the catch block: the error is reported and the prompt issued again
Caught(line, error) ==
  [line EXCEPT !.state = "error", !.error = error, !.prompted = TRUE]

\* rl.on('line') up to its first return or await: text is input.trim() and
\* started is sqlTranslator.query(text, { includeId: true }) up to its await
onLine(input, text, started) ==
  IF ToLower(text) \in {W_exit, W_quit} THEN Handled("line", input, "goodbye", NotStarted, FALSE)
  ELSE IF text = <<>> THEN Handled("line", input, "skipped", NotStarted, TRUE)
  ELSE IF ToUpper(text) = W_HELP THEN Handled("line", input, "help", NotStarted, TRUE)
  ELSE IF started.error # JsNull
  THEN Caught(Handled("line", input, "awaiting", started, FALSE), started.error)
  ELSE Handled("line", input, "awaiting", started, FALSE)

\* a slip: the rows are built from the plan of the query started last, as if
\* the translator kept the plan of its current query in a field
Displayed_lastPlan(ls, n, stored) ==
  [ls[n] EXCEPT !.state = "rows",
                !.rows = Results(ls[Max({m \in 1..Len(ls) : ls[m].plan # JsNull})].plan,
                                 ls[Max({m \in 1..Len(ls) : ls[m].plan # JsNull})].calls,
                                 stored, TRUE),
                !.prompted = TRUE]

\* displayResults(results) and the prompt, once the await of the n-th line's
\* query has resolved
Displayed(ls, n, stored) ==
  [ls[n] EXCEPT !.state = "rows",
                !.rows = Results(ls[n].plan, ls[n].calls, stored, TRUE),
                !.prompted = TRUE]

\* what a step of a handler leaves: its line, the history file, the log of saves
Effect(line, file, log) == [line |-> line, file |-> file, log |-> log]

\* the try block after the await: the query is saved, the results displayed
Resolved(ls, n, file, log, stored) ==
  Effect(Displayed(ls, n, stored), saveQueryToHistory(file, Trim(ls[n].input)),
         Append(log, Trim(ls[n].input)))

\* a slip: the query is saved whatever its outcome
Rejected_saved(line, file, log, error) ==
  Effect(Caught(line, error), saveQueryToHistory(file, Trim(line.input)),
         Append(log, Trim(line.input)))

\* the await threw: the catch block, the history untouched
Rejected(line, file, log, error) == Effect(Caught(line, error), file, log)

ShellInputs ==
  { <<" "," ","e","x","i","t">>, <<"Q","U","I","T">>, <<>>, <<" "," "," ">>, <<"h","e","l","p"," ">>, <<"S","E","L","E","C","T"," ","*"," ","F","R","O","M"," ","c">>,
    <<" ","S","E","L","E","C","T"," ","C","O","U","N","T","(","*",")"," ","F","R","O","M"," ","c"," ","W","H","E","R","E"," ","a"," ","="," ","1"," ">>, <<"D","E","L","E","T","E"," ","F","R","O","M"," ","c">>,
    <<"S","E","L","E","C","T"," ","*"," ","F","R","O","M"," ","c"," ","W","H","E","R","E"," ","a"," ","="," ","1"," ","O","R"," ","b"," ","="," ","2">> }

\* rl.on('line'): the rl.close() of exit and quit runs the close handler
Line(input) ==
  /\ ~closed /\ Len(lines) < MaxLines
  /\ \E handled \in {onLine(input, Trim(input), query(parseSQL(Trim(input))))} :
       /\ lines' = Append(lines, handled)
       /\ closed' = (handled.state = "goodbye")
  /\ UNCHANGED <<history, saved, docs>>
  /\ UNCHANGED coreVars

\* the backend answers the query of the n-th line
Answer(n) ==
  /\ ~closed /\ lines[n].state = "awaiting"
  /\ \E effect \in {Resolved(lines, n, history, saved, docs)} :
       /\ lines' = [lines EXCEPT ![n] = effect.line]
       /\ history' = effect.file
       /\ saved' = effect.log
  /\ UNCHANGED <<closed, docs>>
  /\ UNCHANGED coreVars

\* the backend call of the n-th line's query fails
Fail(n) ==
  /\ ~closed /\ lines[n].state = "awaiting"
  /\ \E effect \in {Rejected(lines[n], history, saved, BackendError)} :
       /\ lines' = [lines EXCEPT ![n] = effect.line]
       /\ history' = effect.file
       /\ saved' = effect.log
       /\ closed' = (effect.line.state = "goodbye")
  /\ UNCHANGED docs
  /\ UNCHANGED coreVars

\* rl.on('close'): the input has ended, process.exit(0)
Close ==
  /\ ~closed
  /\ lines' = Append(lines, Handled("close", <<>>, "goodbye", NotStarted, FALSE))
  /\ closed' = TRUE
  /\ UNCHANGED <<history, saved, docs>>
  /\ UNCHANGED coreVars

NextShell ==
  \/ \E input \in ShellInputs : Line(input)
  \/ \E n \in 1..Len(lines) : Answer(n)
  \/ \E n \in 1..Len(lines) : Fail(n)
  \/ Close

SpecShell == Init /\ [][NextShell]_vars

(***************************************************************************)
(* Properties                                                              *)
(***************************************************************************)
RECURSIVE ContainsOr(_)
ContainsOr(c) ==
  c.type = "logical" /\ (c.operator = W_OR \/ ContainsOr(c.left) \/ ContainsOr(c.right))

Executions(cs) == {i \in 1..Len(cs) : cs[i].op \in {"get", "aggregateGet"}}

OrWhereTexts ==
  {<<" ","W","H","E","R","E"," ","a"," ","="," ","1"," ","O","R"," ","b"," ","="," ","2">>, <<" ","W","H","E","R","E"," ","a"," ",">","="," ","1"," ","A","N","D"," ","b"," ","="," ","2"," ","o","r"," ","c","i","t","y"," ","="," ","'","N","Y","'">>,
   <<" ","W","H","E","R","E"," ","a"," ","L","I","K","E"," ","1"," ","A","N","D"," ","b"," ","="," ","2"," ","O","R"," ","a"," ","="," ","1">>}

OrQueries == {s \o wh \o l : s \in SelectTexts, wh \in OrWhereTexts, l \in LimitTexts}

CountSelects == {<<"S","E","L","E","C","T"," ","C","O","U","N","T","(","*",")"," ","F","R","O","M"," ","c">>, <<"s","e","l","e","c","t"," ","c","o","u","n","t","(","*",")"," ","f","r","o","m"," ","c">>}

DirectedOrders == {<<" ","O","R","D","E","R"," ","B","Y"," ","a"," ","A","S","C">>, <<" ","O","R","D","E","R"," ","B","Y"," ","i","d"," ","d","e","s","c">>}

CountOrderQueries ==
  {s \o wh \o o \o l : s \in CountSelects, wh \in WhereTexts, o \in DirectedOrders, l \in LimitTexts}

\* C2: a query whose select list is COUNT(*) and which has an ORDER BY clause
\* with a field and a direction is rejected by parseSQL: no plan, no backend call
C2_CountWithOrderByRejected ==
  (sql \in CountOrderQueries) =>
    (pc = "failed" /\ IsErr(err) /\ plan = JsNull /\ calls = <<>> /\ rows = <<>>)

C2_Witness ==
  /\ sql = <<"s","e","l","e","c","t"," ","c","o","u","n","t","(","*",")"," ","f","r","o","m"," ","c"," ","W","H","E","R","E"," ","a"," ","="," ","1"," ","O","R","D","E","R"," ","B","Y"," ","i","d"," ","d","e","s","c"," ","L","I","M","I","T"," ","2">>
  /\ pc = "failed" /\ plan = JsNull
  /\ err = Err("ORDER BY is not supported with COUNT(*) queries")

BadLimitQueries ==
  {s \o wh \o o \o l : s \in SelectTexts, wh \in WhereTexts, o \in OrderTexts,
                       l \in {<<" ","L","I","M","I","T"," ","-","1">>, <<" ","L","I","M","I","T"," ","a","b","c">>}}

\* C3: a query whose LIMIT argument is not a non-negative integer is rejected
\* by parseSQL: it yields no plan and is never executed
C3_InvalidLimitRejected ==
  (sql \in BadLimitQueries) => (pc = "failed" /\ plan = JsNull /\ calls = <<>>)

LimitCalls(cs) == {i \in 1..Len(cs) : cs[i].op = "limit"}

\* C4: a non-COUNT query with LIMIT n has limit(n) applied to the backend query
\* and returns at most n rows; with LIMIT 0 it returns no row
C4_LimitBoundsRows ==
  (plan.type = "plan" /\ ~isCountQuery(plan.select) /\ plan.limit # JsNull) =>
    /\ pc \in {"awaiting", "done"} =>
         \E i \in LimitCalls(calls) : calls[i].n = plan.limit.n
    /\ pc = "done" => Len(rows) <= plan.limit.n

\* C5 as stated: every literal, quoted or bare, resolves by the one order
\* timestamp, number, boolean, null, string after its quotes are removed
C5_OneOrderForAll ==
  Returned("parseValue") => out = ResolveInOrder(StripQuotes(Trim(arg)))

Numeric(s) == ~IsNaNStr(s) /\ s # <<>>

\* C5 amended: a quoted literal resolves by timestamp, number, string and a
\* bare literal by number, boolean, null, string
C5_QuotedAndBareOrders ==
  Returned("parseValue") =>
    LET t == Trim(arg)
        inner == Slice1(t)
        isTs == parseTimestamp(inner) # NoTimestamp
        word == ToLower(t)
    IN  /\ IsQuoted(t) =>
             /\ out.type \in {"Timestamp", "Number", "String"}
             /\ (out.type = "Timestamp") <=> isTs
             /\ (out.type = "Number") <=> (~isTs /\ Numeric(inner))
             /\ (out.type = "String") => out.s = inner
        /\ ~IsQuoted(t) =>
             /\ out.type \in {"Number", "Boolean", "Null", "String"}
             /\ (out.type = "Number") <=> Numeric(t)
             /\ (out.type = "Boolean") <=> (word \in {<<"t","r","u","e">>, <<"f","a","l","s","e">>})
             /\ (out.type = "Boolean") => (out.b <=> (word = <<"t","r","u","e">>))
             /\ (out.type = "Null") <=> (word = <<"n","u","l","l">>)
             /\ (out.type = "String") => out.s = t
        /\ (arg = <<"\"","t","r","u","e","\"">>) => out = StringV(<<"t","r","u","e">>)
        /\ (arg = <<"\"","n","u","l","l","\"">>) => out = StringV(<<"n","u","l","l">>)
        /\ (arg = <<"2","0","2","5","-","1","0","-","1","0">>) => out = StringV(<<"2","0","2","5","-","1","0","-","1","0">>)
        /\ (arg = <<"\"","2","0","2","5","-","1","0","-","1","0","\"">>) => out = TimestampV(2025, 10, 10, 0, 0, 0, 0, "utc")

C5_Witness ==
  Returned("parseValue") /\ arg = <<"\"","t","r","u","e","\"">> /\ out = StringV(<<"t","r","u","e">>)

InvalidDateTexts ==
  {<<"\"","2","0","2","5","-","1","3","-","4","5","\"">>, <<"\"","1","3","-","1","0","-","2","0","2","5","\"">>, <<"\"","O","c","t","o","b","e","r"," ","3","2",","," ","2","0","2","5","\"">>, <<"\"","2","0","2","5","-","1","0","-","1","0","T","2","5",":","0","0",":","0","0","\"">>}

\* C6: parseValue is total: every token yields a value of one of the five
\* variants, a timestamp only for a valid date, and a date-shaped text that is
\* no valid date falls through to the later variants
C6_Total ==
  Returned("parseValue") =>
    /\ out.type \in {"Timestamp", "Number", "Boolean", "Null", "String"}
    /\ (out.type = "Timestamp") =>
         /\ out.month \in 1..12 /\ out.day \in 1..31
         /\ out.hour \in 0..24 /\ out.minute \in 0..59 /\ out.second \in 0..59
    /\ (arg \in InvalidDateTexts) => out = StringV(Slice1(arg))
    /\ (arg \in {<<"\"">>, <<"\"", "\"">>, <<"'", "'">>}) => out = StringV(<<>>)

C6_Witness ==
  Returned("parseValue") /\ arg = <<"\"","2","0","2","5","-","1","3","-","4","5","\"">> /\ out = StringV(<<"2","0","2","5","-","1","3","-","4","5">>)

RECURSIVE ConditionFields(_)
ConditionFields(c) ==
  IF c.type = "condition" THEN {c.field}
  ELSE IF c.type = "logical" THEN ConditionFields(c.left) \cup ConditionFields(c.right)
  ELSE {}

PlanFields(p) ==
  {p.select[i].field : i \in {j \in 1..Len(p.select) : p.select[j].type \in {"field", "function"}}}
  \cup ConditionFields(p.where)
  \cup (IF p.orderBy # JsNull THEN {p.orderBy.field} ELSE {})

CallFields(cs) == {cs[i].field : i \in {j \in 1..Len(cs) : cs[j].op \in {"where", "orderBy"}}}

\* C7: no field-name position of a plan returned by parseSQL holds the name id,
\* and no where() or orderBy() call receives it
C7_NoIdInPlan ==
  /\ (plan.type = "plan") => W_id \notin PlanFields(plan)
  /\ W_id \notin CallFields(calls)

C7_Witness ==
  /\ sql = <<"S","E","L","E","C","T"," ","i","d",","," ","t","o","D","a","t","e","(","c","r","e","a","t","e","d","A","t",")"," ","F","R","O","M"," ","c"," ","W","H","E","R","E"," ","i","d","=","\"","u","1","\""," ","O","R","D","E","R"," ","B","Y"," ","i","d"," ","d","e","s","c">>
  /\ plan.type = "plan"
  /\ plan.select[1].field = W_name /\ plan.where.field = W_name /\ plan.orderBy.field = W_name
  /\ CallFields(calls) = {W_name}

\* C8: convertIdToName is idempotent, rewrites exactly the name id and leaves
\* every other name, __name__ included, unchanged
C8_AliasIdempotent ==
  Returned("convertIdToName") =>
    /\ convertIdToName(out) = out
    /\ (arg = W_id) => out = W_name
    /\ (arg # W_id) => out = arg

C8_Witness ==
  Returned("convertIdToName") /\ arg = W_id /\ out = W_name

RECURSIVE Flatten(_)
Flatten(ss) == IF ss = <<>> THEN <<>> ELSE Head(ss) \o Flatten(Tail(ss))

\* C9: the tokenizer never breaks a token at white space inside a quoted span
\* and keeps the quotes: pieces joined by white space come back as the tokens
\* (a piece with a glued operator comes back cut at the operator only)
C9_QuotedSpansKept ==
  Returned("tokenizeWhereClause") =>
    /\ Flatten(out) = Flatten(arg.pieces)
    /\ (\A i \in 1..Len(arg.pieces) : arg.pieces[i] \notin GluedPieces) => out = arg.pieces
    /\ (arg.pieces = <<<<"n","a","m","e","=","\"","A"," "," ","B","\"">>>>) => out = <<<<"n","a","m","e">>, <<"=">>, <<"\"","A"," "," ","B","\"">>>>

C9_Witness ==
  /\ Returned("tokenizeWhereClause")
  /\ arg.pieces = <<<<"f","i","e","l","d">>, <<"=">>, <<"\"","A"," ","A","N","D"," ","B","\"">>>>
  /\ Len(out) = 3 /\ out[3] = <<"\"","A"," ","A","N","D"," ","B","\"">>

\* C10: three tokens always give the leaf Condition(alias of the first, the
\* second, parseValue of the third), and age > 25 AND city = 'NY' gives
\* Logical{AND, Condition(age, >, 25), Condition(city, =, "NY")}
C10_ThreeTokensLeaf ==
  /\ (Returned("parseConditionTokens") /\ Len(arg) = 3) =>
       out = [type |-> "condition", field |-> convertIdToName(arg[1]),
              operator |-> arg[2], value |-> parseValue(arg[3])]
  /\ (Returned("parseWhereConditions") /\ arg = <<"a","g","e"," ",">"," ","2","5"," ","A","N","D"," ","c","i","t","y"," ","="," ","'","N","Y","'">>) =>
       out = [type |-> "logical", operator |-> W_AND,
              left  |-> [type |-> "condition", field |-> <<"a","g","e">>, operator |-> <<">">>,
                         value |-> NumberV(25, 0)],
              right |-> [type |-> "condition", field |-> <<"c","i","t","y">>, operator |-> <<"=">>,
                         value |-> StringV(<<"N","Y">>)]]

C10_Witness ==
  /\ Returned("parseConditionTokens") /\ arg = <<<<"i","d">>, <<"A","N","D">>, <<"2","5">>>>
  /\ out.type = "condition" /\ out.field = W_name /\ out.operator = W_AND

\* C11: a token sequence that is not three tokens long is split at the leftmost
\* token, other than the first and the last, that is AND or OR whatever its
\* case: the root carries the connective in upper case, the left subtree is
\* built from the tokens before it and the right subtree from the tokens after
\* it, without precedence; a quoted 'AND' is an ordinary token
C11_LeftmostConnective ==
  /\ (Returned("parseConditionTokens") /\ Len(arg) # 3) =>
       LET I == {i \in 2..(Len(arg) - 1) : arg[i] \in {<<"A","N","D">>, <<"O","R">>, <<"a","n","d">>, <<"o","r">>, <<"A","n","d">>, <<"O","r">>, <<"a","N","d">>, <<"o","R">>, <<"a","n","D">>, <<"A","N","d">>, <<"a","N","D">>, <<"A","n","D">>}}
           before == parseConditionTokens(SubSeq(arg, 1, Min(I) - 1))
           after  == parseConditionTokens(SubSeq(arg, Min(I) + 1, Len(arg)))
       IN  /\ (Len(arg) = 0) => out = JsNull
           /\ (Len(arg) > 0 /\ I = {}) => IsErr(out)
           /\ (I # {} /\ ~IsErr(before) /\ ~IsErr(after)) =>
                /\ out.type = "logical"
                /\ out.operator = (IF Len(arg[Min(I)]) = 3 THEN <<"A","N","D">> ELSE <<"O","R">>)
                /\ out.left = before /\ out.right = after
           /\ (I # {} /\ (IsErr(before) \/ IsErr(after))) => IsErr(out)
  /\ (Returned("parseWhereConditions") /\ arg = <<"a"," ","="," ","1"," ","A","N","D"," ","b"," ","="," ","2"," ","O","R"," ","c"," ","="," ","3">>) =>
       out = [type |-> "logical", operator |-> <<"A","N","D">>,
              left  |-> [type |-> "condition", field |-> <<"a">>, operator |-> <<"=">>, value |-> NumberV(1, 0)],
              right |-> [type |-> "logical", operator |-> <<"O","R">>,
                         left  |-> [type |-> "condition", field |-> <<"b">>, operator |-> <<"=">>, value |-> NumberV(2, 0)],
                         right |-> [type |-> "condition", field |-> <<"c">>, operator |-> <<"=">>, value |-> NumberV(3, 0)]]]
  /\ (Returned("parseWhereConditions") /\ arg = <<"a"," ","="," ","1"," ","O","R"," ","b"," ","="," ","2"," ","A","N","D"," ","c"," ","="," ","3">>) =>
       out = [type |-> "logical", operator |-> <<"O","R">>,
              left  |-> [type |-> "condition", field |-> <<"a">>, operator |-> <<"=">>, value |-> NumberV(1, 0)],
              right |-> [type |-> "logical", operator |-> <<"A","N","D">>,
                         left  |-> [type |-> "condition", field |-> <<"b">>, operator |-> <<"=">>, value |-> NumberV(2, 0)],
                         right |-> [type |-> "condition", field |-> <<"c">>, operator |-> <<"=">>, value |-> NumberV(3, 0)]]]
  /\ (Returned("parseWhereConditions") /\ arg = <<"a"," ","="," ","'","A","N","D","'"," ","a","n","d"," ","b"," ","="," ","\"","x"," ","O","R"," ","y","\"">>) =>
       out = [type |-> "logical", operator |-> <<"A","N","D">>,
              left  |-> [type |-> "condition", field |-> <<"a">>, operator |-> <<"=">>, value |-> StringV(<<"A","N","D">>)],
              right |-> [type |-> "condition", field |-> <<"b">>, operator |-> <<"=">>, value |-> StringV(<<"x"," ","O","R"," ","y">>)]]

C11_Witness ==
  /\ Returned("parseConditionTokens")
  /\ arg = <<<<"i","d">>, <<">">>, <<"'","A","N","D","'">>, <<"o","r">>, <<"a">>, <<"=">>, <<"1">>, <<"A","N","D">>, <<"b">>, <<"o","r">>, <<"2">>>>
  /\ out.type = "logical" /\ out.operator = <<"O","R">> /\ out.left.type = "condition"
  /\ out.right.type = "logical" /\ out.right.operator = <<"A","N","D">>

W_GROUPsp == <<"G","R","O","U","P"," ">>

\* C12: a FROM path that begins with the GROUP keyword is opened as a
\* collection-group query on the name after GROUP, and any other FROM path as
\* a plain collection with that path
C12_GroupOpensCollectionGroup ==
  (plan.type = "plan" /\ calls # <<>>) =>
    IF AtCI(plan.from, 1, W_GROUPsp)
    THEN calls[1] = [op |-> "collectionGroup", path |-> SubSeq(plan.from, 7, Len(plan.from))]
    ELSE calls[1] = [op |-> "collection", path |-> plan.from]

\* the backend operator written by each of the six SQL operators
BackendOperator(op) ==
  CASE op = <<"=">> -> "==" [] op = <<"!","=">> -> "!=" [] op = <<">">> -> ">"
    [] op = <<">","=">> -> ">=" [] op = <<"<">> -> "<" [] op = <<"<","=">> -> "<="
    [] OTHER -> "none"

\* does the document satisfy a filter tree of conditions joined by AND
RECURSIVE Satisfies(_, _)
Satisfies(doc, c) ==
  IF c = JsNull THEN TRUE
  ELSE IF c.type = "condition"
  THEN Passes(doc, WhereCall(c.field, BackendOperator(c.operator), c.value))
  ELSE Satisfies(doc, c.left) /\ Satisfies(doc, c.right)

CountOf(path, stored, c) ==
  Cardinality({i \in 1..Len(Collection(path, stored)) : Satisfies(Collection(path, stored)[i], c)})

OpsOf(cs) == [i \in 1..Len(cs) |-> cs[i].op]

CountTexts ==
  {s \o wh \o l : s \in CountSelects, wh \in WhereTexts, l \in LimitTexts}

\* C13: a query whose select list is exactly COUNT(*) makes the translator open
\* the collection, apply the filters and issue one aggregate count, never
\* orderBy(), limit() or the row-returning get(); it returns exactly one row
\* COUNT(*) -> n, n the number of documents of the path that pass the filters,
\* whatever the LIMIT clause of the text
C13_CountOneRow ==
  /\ (sql \in CountTexts /\ pc \in {"awaiting", "done"}) => plan.select = <<CountItem>>
  /\ (plan.type = "plan" /\ plan.select = <<CountItem>>) =>
       /\ \A i \in 1..Len(calls) : calls[i].op \notin {"orderBy", "limit", "get"}
       /\ pc \in {"awaiting", "done"} =>
            /\ Len(calls) >= 3 /\ calls[1] = [op |-> "collection", path |-> plan.from]
            /\ \A i \in 2..(Len(calls) - 2) : calls[i].op = "where"
            /\ calls[Len(calls) - 1].op = "aggregate" /\ calls[Len(calls)].op = "aggregateGet"
       /\ pc = "done" =>
            rows = <<(W_COUNT :> NumberV(CountOf(plan.from, docs, plan.where), 0))>>

C13_Witness ==
  /\ sql = <<"S","E","L","E","C","T"," ","C","O","U","N","T","(","*",")"," ","F","R","O","M"," ","c"," ","W","H","E","R","E"," ","a"," ",">"," ","0"," ","A","N","D"," ","c","i","t","y"," ","="," ","'","N","Y","'"," ","L","I","M","I","T"," ","0">>
  /\ Len(docs) = 2 /\ pc = "done"
  /\ OpsOf(calls) = <<"collection", "where", "where", "aggregate", "aggregateGet">>
  /\ rows = <<(W_COUNT :> NumberV(1, 0))>>

\* the Condition leaves of a filter tree, from left to right
RECURSIVE Leaves(_)
Leaves(c) ==
  IF c = JsNull THEN <<>>
  ELSE IF c.type = "condition" THEN <<c>>
  ELSE Leaves(c.left) \o Leaves(c.right)

\* a filter tree without OR whose leaves carry one of the six operators
Translatable(c) ==
  /\ ~ContainsOr(c)
  /\ \A i \in 1..Len(Leaves(c)) : BackendOperator(Leaves(c)[i].operator) # "none"

WhereCallsOf(c) ==
  [i \in 1..Len(Leaves(c)) |->
     WhereCall(Leaves(c)[i].field, BackendOperator(Leaves(c)[i].operator), Leaves(c)[i].value)]

OrderByCallsOf(p) ==
  IF p.orderBy = JsNull THEN <<>>
  ELSE <<[op |-> "orderBy", field |-> p.orderBy.field,
          direction |-> IF p.orderBy.direction = <<"A","S","C">> THEN <<"a","s","c">> ELSE <<"d","e","s","c">>]>>

WithoutLimit(cs) == SelectSeq(cs, LAMBDA c : c.op # "limit")

MalformedTexts ==
  {<<"D","E","L","E","T","E"," ","F","R","O","M"," ","c">>, <<"S","E","L","E","C","T"," ","*"," ","F","R","O","M">>}
  \cup {s \o <<" ","W","H","E","R","E"," ","a"," ","="," ","1"," ","A","N","D">> \o o \o l : s \in SelectTexts, o \in OrderTexts, l \in LimitTexts}
  \cup CountOrderQueries

\* C15: when parseSQL fails, no backend operation at all is invoked for that
\* query line and the caller receives the error only, never rows
C15_NoBackendOnParseFailure ==
  /\ (sql \in MalformedTexts) => IsErr(parseSQL(sql))
  /\ (pc # "idle" /\ IsErr(parseSQL(sql))) =>
       /\ pc = "failed" /\ err = parseSQL(sql)
       /\ calls = <<>> /\ rows = <<>> /\ plan = JsNull

C15_Witness ==
  /\ sql = <<"S","E","L","E","C","T"," ","*"," ","F","R","O","M"," ","c"," ","W","H","E","R","E"," ","a"," ","="," ","1"," ","A","N","D"," ","O","R","D","E","R"," ","B","Y"," ","a"," ","A","S","C"," ","L","I","M","I","T"," ","1">>
  /\ pc = "failed" /\ calls = <<>> /\ rows = <<>>
  /\ err = Err("Invalid condition format - expected field operator value")

\* the words of a text: its maximal runs of characters other than white space
RECURSIVE Words(_)
Words(s) ==
  IF SkipSet(s, 1, WhiteSpace) > Len(s) THEN <<>>
  ELSE <<SubSeq(s, SkipSet(s, 1, WhiteSpace), WordEnd(s, SkipSet(s, 1, WhiteSpace)))>>
       \o Words(SubSeq(s, WordEnd(s, SkipSet(s, 1, WhiteSpace)) + 1, Len(s)))

\* the index of the first FROM keyword after the first word, or 0
FromWord(ws) ==
  IF \E i \in 2..Len(ws) : ToUpper(ws[i]) = <<"F","R","O","M">>
  THEN Min({i \in 2..Len(ws) : ToUpper(ws[i]) = <<"F","R","O","M">>})
  ELSE 0

\* the text begins with the keyword SELECT followed by a select list
HasSelectList(ws) == Len(ws) >= 1 /\ ToUpper(ws[1]) = <<"S","E","L","E","C","T">> /\ FromWord(ws) > 2

\* a path follows the FROM keyword: a word that opens no other clause
HasFromPath(ws) ==
  /\ FromWord(ws) # 0 /\ FromWord(ws) < Len(ws)
  /\ ToUpper(ws[FromWord(ws) + 1]) \notin {<<"W","H","E","R","E">>, <<"O","R","D","E","R">>, <<"L","I","M","I","T">>}

\* C16: parseSQL rejects every text that does not begin with the keyword SELECT
\* followed by a select list and every text in which no FROM clause with a
\* path can be found; a plan is returned only for texts that have both, and
\* its from path is not empty
C16_MissingClausesRejected ==
  (pc # "idle") =>
    /\ (~HasSelectList(Words(sql)) \/ ~HasFromPath(Words(sql))) =>
         (pc = "failed" /\ plan = JsNull /\ calls = <<>>)
    /\ (plan.type = "plan") =>
         (plan.from # <<>> /\ HasSelectList(Words(sql)) /\ HasFromPath(Words(sql)))

UndirectedOrderQueries ==
  {s \o wh \o <<" ","O","R","D","E","R"," ","B","Y"," ","a">> \o l : s \in SelectTexts, wh \in WhereTexts, l \in LimitTexts}

\* C17: a query whose ORDER BY clause has no ASC or DESC after its field is not
\* accepted as a plan, and the direction of every plan that has an orderBy is
\* ASC or DESC in upper case
C17_DirectionRequired ==
  /\ (sql \in UndirectedOrderQueries /\ pc # "idle") => (pc = "failed" /\ plan = JsNull)
  /\ (plan.type = "plan" /\ plan.orderBy # JsNull) => plan.orderBy.direction \in {<<"A","S","C">>, <<"D","E","S","C">>}

\* C18: in every plan returned by parseSQL a COUNT aggregate item is the only
\* item of its select list and comes with a null orderBy, the wildcard item is
\* the only item of its list, every other item is a plain field or a function
\* toDate or prettyJson, and the limit is null or a non-negative integer
C18_SelectListInvariants ==
  /\ (Returned("parseSQL") /\ out.type = "plan") =>
       /\ Len(out.select) >= 1
       /\ (\E i \in 1..Len(out.select) : out.select[i].type = "aggregation") =>
            (out.select = <<CountItem>> /\ out.orderBy = JsNull)
       /\ (\E i \in 1..Len(out.select) : out.select[i].type = "string") =>
            out.select = <<StarItem>>
       /\ \A i \in 1..Len(out.select) :
            \/ out.select[i].type \in {"aggregation", "string", "field"}
            \/ out.select[i].type = "function" /\ out.select[i].function \in {"toDate", "prettyJson"}
       /\ out.limit = JsNull \/ out.limit.n \in Nat
  /\ (Returned("parseSQL") /\ arg = <<"S","E","L","E","C","T"," ","C","O","U","N","T","(","*",")"," ","F","R","O","M"," ","c"," ","O","R","D","E","R"," ","B","Y"," ","a"," ","D","E","S","C">>) => IsErr(out)
  /\ (Returned("parseSQL") /\ arg = <<"S","E","L","E","C","T"," ","c","o","u","n","t","(","*",")"," ","F","R","O","M"," ","c"," ","L","I","M","I","T"," ","1","2">>) =>
       (out.type = "plan" /\ out.select = <<CountItem>> /\ out.limit = LimitV(12))

C18_Witness ==
  /\ Returned("parseSQL") /\ arg = <<"S","E","L","E","C","T"," ","a"," ",","," ","C","O","U","N","T","(","*",")"," ","F","R","O","M"," ","c"," ","O","R","D","E","R"," ","B","Y"," ","a"," ","D","E","S","C">>
  /\ out.type = "plan" /\ Len(out.select) = 2 /\ out.orderBy # JsNull
  /\ out.select[2] = [type |-> "field", function |-> "none", field |-> <<"C","O","U","N","T","(","*",")">>]

\* the select list holds plain fields only
PlainFields(select) == \A i \in 1..Len(select) : select[i].type = "field"

SelectedNames(select) == {select[i].field : i \in 1..Len(select)}

\* C19: for a select list of plain fields each row holds exactly the selected
\* fields that the document has, with the document's values: an absent field
\* is left out, no unselected field appears, and __name__, when selected, is
\* always there and is the document id
C19_RowsHoldSelectedFields ==
  (pc = "done" /\ plan.type = "plan" /\ PlainFields(plan.select)) =>
    /\ Len(rows) = Len(Snapshot(calls, docs))
    /\ \A i \in 1..Len(rows) :
         /\ DOMAIN rows[i] =
              {f \in SelectedNames(plan.select) : HasField(Snapshot(calls, docs)[i], f)}
         /\ \A f \in DOMAIN rows[i] : rows[i][f] = FieldValue(Snapshot(calls, docs)[i], f)

\* C20: with includeId set, as the command line sets it, every row of every
\* non-COUNT query holds the identifier of its document, whatever the select list
C20_EveryRowCarriesId ==
  (includeId /\ pc = "done" /\ plan.type = "plan" /\ plan.select # <<CountItem>>) =>
    /\ Len(rows) = Len(Snapshot(calls, docs))
    /\ \A i \in 1..Len(rows) :
         \E k \in DOMAIN rows[i] : rows[i][k] = StringV(Snapshot(calls, docs)[i].id)

\* the values formatToDate takes for dates: timestamps, texts that hold a
\* date, and numbers (taken as Unix times)
DateLike(v) ==
  \/ v.type = "Timestamp"
  \/ v.type = "String" /\ parseTimestamp(v.s) # NoTimestamp
  \/ v.type = "Number" /\ v.kind = "finite" /\ v.m # 0

\* the text MM/DD/YY hh:mm:ss of a date-like value
DateTextOf(v) == IF v.type = "String" THEN DateText(parseTimestamp(v.s)) ELSE DateText(v)

ToDateItems(select) ==
  {j \in 1..Len(select) : select[j].type = "function" /\ select[j].function = "toDate"}

\* C21: for a select item toDate(f) every row has the key toDate(f), f after
\* aliasing: null when the document has no field f, the value as it is when it
\* is not date-like (the document id for toDate(id)), else the date text
C21_ToDateKeyAlwaysSet ==
  (pc = "done" /\ plan.type = "plan") =>
    \A j \in ToDateItems(plan.select) : \A i \in 1..Len(rows) :
      /\ DisplayName(W_toDate, plan.select[j].field) \in DOMAIN rows[i]
      /\ rows[i][DisplayName(W_toDate, plan.select[j].field)] =
           IF ~HasField(Snapshot(calls, docs)[i], plan.select[j].field) THEN NullV
           ELSE IF DateLike(FieldValue(Snapshot(calls, docs)[i], plan.select[j].field))
           THEN DateTextOf(FieldValue(Snapshot(calls, docs)[i], plan.select[j].field))
           ELSE FieldValue(Snapshot(calls, docs)[i], plan.select[j].field)

\* the distinct queries of a log of saves, the most recently saved first
NotAmong(items, later) == SelectSeq(items, LAMBDA item : \A j \in 1..Len(later) : later[j] # item)

Later(recent, older) == recent \o NotAmong(older, recent)

RECURSIVE DistinctRecentIn(_, _, _)
DistinctRecentIn(log, lo, hi) ==
  IF lo = hi THEN <<log[lo]>>
  ELSE Later(DistinctRecentIn(log, ((lo + hi) \div 2) + 1, hi),
             DistinctRecentIn(log, lo, (lo + hi) \div 2))

DistinctRecent(log) == IF log = <<>> THEN <<>> ELSE DistinctRecentIn(log, 1, Len(log))

FirstOf(items, n) == SubSeq(items, 1, Min({n, Len(items)}))

\* C22: after any sequence of saveQueryToHistory calls the stored history is
\* the list of the distinct saved queries, the most recently saved first, cut
\* to the MAX_HISTORY_SIZE most recent; it never holds more than that
C22_HistoryIsReferenceList ==
  /\ loadQueryHistory(history) = FirstOf(DistinctRecent(saved), MAX_HISTORY_SIZE)
  /\ Len(loadQueryHistory(history)) <= MAX_HISTORY_SIZE

\* a full history where the last call saved again a query saved before, after
\* more than MAX_HISTORY_SIZE distinct queries were saved
C22_Witness ==
  /\ fn = "saveQueryToHistory" /\ arg = <<>> /\ Len(saved) > MAX_HISTORY_SIZE
  /\ \E i \in 1..(Len(saved) - 1) : saved[i] = saved[Len(saved)]
  /\ Len(loadQueryHistory(history)) = MAX_HISTORY_SIZE
  /\ Cardinality({saved[i] : i \in 1..Len(saved)}) > MAX_HISTORY_SIZE

\* the trimmed texts of the lines whose query has completed with rows
Succeeded(ls) == {Trim(ls[n].input) : n \in {m \in 1..Len(ls) : ls[m].state = "rows"}}

\* C23: a line is written to the query history only after its query has
\* completed successfully: every stored entry and every save is the text of a
\* line that ended with rows, and with no such line the file is untouched;
\* failing queries, empty lines, HELP, exit and quit leave no entry
C23_HistoryOnlyAfterSuccess ==
  /\ \A i \in 1..Len(saved) : saved[i] \in Succeeded(lines)
  /\ \A i \in 1..Len(loadQueryHistory(history)) : loadQueryHistory(history)[i] \in Succeeded(lines)
  /\ Succeeded(lines) = {} => history = JsNull
  /\ Succeeded(lines) # {} => history # JsNull /\ loadQueryHistory(history) # <<>>

\* a query failed in the backend and another one succeeded: only the second
\* is in the history
C23_Witness ==
  /\ Len(lines) = 2
  /\ lines[1].state = "error" /\ lines[1].error = BackendError
  /\ lines[2].state = "rows"
  /\ loadQueryHistory(history) = <<Trim(lines[2].input)>>
  /\ Trim(lines[1].input) # Trim(lines[2].input)

\* C24: for every query the translator issues at most one executing call
\* (get() or the aggregate's get()), and it is its last backend call; when
\* that call fails, query() rejects with the backend's error as it is, there
\* are no rows and no call follows
C24_OneCallNoRetry ==
  /\ Cardinality(Executions(calls)) <= 1
  /\ Executions(calls) \subseteq {Len(calls)}
  /\ pc = "awaiting" => Executions(calls) = {Len(calls)} /\ err = JsNull /\ rows = <<>>
  /\ (pc = "failed" /\ Executions(calls) # {}) => err = BackendError /\ rows = <<>>
  /\ (pc = "failed" /\ err = BackendError) => Executions(calls) = {Len(calls)}

\* the backend failed the get() of a filtered, ordered query
C24_Witness ==
  /\ pc = "failed" /\ err = BackendError /\ rows = <<>>
  /\ OpsOf(calls) = <<"collection", "where", "orderBy", "get">>

\* what the handler leaves for an input line that is the only one of its
\* session, for each way the backend can take its query
AloneFrom(first, stored) ==
  IF first.state = "awaiting"
  THEN {first, Displayed(<<first>>, 1, stored), Caught(first, BackendError)}
  ELSE {first}

Alone(input, stored) ==
  AloneFrom(onLine(input, Trim(input), query(parseSQL(Trim(input)))), stored)

EndsSession(line) ==
  line.event = "close" \/ ToLower(Trim(line.input)) \in {W_exit, W_quit}

\* C25: the shell survives every query failure: a failed line has its error
\* reported and the prompt issued again, every line entered after a failed
\* one is handled as it is when entered alone, the history holds what the
\* successful lines saved, and the session has ended only if its last event
\* is exit, quit or the end of the input
C25_ShellSurvives ==
  /\ \A n \in 1..Len(lines) :
       lines[n].state = "error" =>
         /\ IsErr(lines[n].error) /\ lines[n].prompted /\ lines[n].rows = <<>>
         /\ closed => \E m \in (n + 1)..Len(lines) : EndsSession(lines[m])
         /\ \A m \in (n + 1)..Len(lines) :
              lines[m].event = "line" => lines[m] \in Alone(lines[m].input, docs)
  /\ closed <=> (lines # <<>> /\ EndsSession(lines[Len(lines)]))
  /\ \A n \in 1..Len(lines) : EndsSession(lines[n]) => n = Len(lines)
  /\ loadQueryHistory(history) = FirstOf(DistinctRecent(saved), MAX_HISTORY_SIZE)

\* a query failed in the backend, the next line's query was then answered
C25_Witness ==
  /\ Len(lines) = 2 /\ ~closed
  /\ lines[1].state = "error" /\ lines[1].error = BackendError /\ lines[1].prompted
  /\ lines[2].state = "rows" /\ lines[2].rows # <<>>
  /\ saved = <<Trim(lines[2].input)>>

\* the outcome of a query run alone on the stored documents: its plan and its
\* backend calls, and its rows or its error when the backend has answered
AlonePlan(text) == query(parseSQL(text)).plan

AloneCalls(text) == query(parseSQL(text)).calls

AloneRows(text, stored) ==
  Results(query(parseSQL(text)).plan, query(parseSQL(text)).calls, stored, TRUE)

Connective(token) == ToUpper(token) \in {<<"A","N","D">>, <<"O","R">>}

HasInnerConnective(tokens) == \E i \in 2..(Len(tokens) - 1) : Connective(tokens[i])

\* a leaf, or a Logical node with an upper-case connective whose left child is
\* a leaf and whose right child is such a tree again
RECURSIVE RightDeep(_)
RightDeep(c) ==
  \/ c.type = "condition"
  \/ /\ c.type = "logical" /\ c.operator \in {<<"A","N","D">>, <<"O","R">>}
     /\ c.left.type = "condition" /\ RightDeep(c.right)

\* conditions of three tokens each, every one but the last followed by a
\* connective
RECURSIVE Chain(_)
Chain(tokens) ==
  \/ Len(tokens) = 3
  \/ /\ Len(tokens) > 4
     /\ ~Connective(tokens[2]) /\ ~Connective(tokens[3]) /\ Connective(tokens[4])
     /\ Chain(SubSeq(tokens, 5, Len(tokens)))

ParsedTokens == IF fn = "parseConditionTokens" THEN arg ELSE tokenizeWhereClause(arg)

\* C27: every tree that parseConditionTokens and parseWhereConditions return
\* is a right-deep chain with no missing part: the left child of every Logical
\* node is a leaf, no child is null and every connective is AND or OR in upper
\* case; a span of tokens that is not three tokens long and has no connective
\* strictly between its first and its last token fails the parse, as does
\* every sequence that is not a chain of conditions; only the empty sequence
\* gives null
C27_RightDeepChain ==
  (Returned("parseConditionTokens") \/ Returned("parseWhereConditions")) =>
    /\ out = JsNull \/ IsErr(out) \/ RightDeep(out)
    /\ out = JsNull <=> ParsedTokens = <<>>
    /\ (ParsedTokens # <<>> /\ Len(ParsedTokens) # 3 /\ ~HasInnerConnective(ParsedTokens)) =>
         out = Err("Invalid condition format - expected field operator value")
    /\ ParsedTokens # <<>> => (IsErr(out) <=> ~Chain(ParsedTokens))

\* a chain of three conditions, the last with a connective as its operator
C27_Witness ==
  /\ Returned("parseConditionTokens")
  /\ arg = <<<<"a">>, <<"=">>, <<"1">>, <<"A","N","D">>, <<"i","d">>, <<">">>, <<"'","A","N","D","'">>, <<"O","r">>, <<"b">>, <<"o","r">>, <<"2">>>>
  /\ out.type = "logical" /\ out.operator = <<"A","N","D">> /\ out.left.type = "condition"
  /\ out.right.type = "logical" /\ out.right.operator = <<"O","R">>
  /\ out.right.left.type = "condition" /\ out.right.right.type = "condition"

\* the tokens a piece stands for: those of its entry in GluedSplits, else itself
TokensOfPiece(piece) ==
  IF piece \in GluedPieces THEN (CHOOSE g \in GluedSplits : g.glued = piece).tokens
  ELSE <<piece>>

RECURSIVE TokensOfPieces(_)
TokensOfPieces(pieces) ==
  IF pieces = <<>> THEN <<>>
  ELSE TokensOfPiece(pieces[1]) \o TokensOfPieces(Tail(pieces))

SixOperators == {<<"=">>, <<"!","=">>, <<"<">>, <<"<","=">>, <<">">>, <<">","=">>}

OperatorRun(token) == token # <<>> /\ \A i \in 1..Len(token) : token[i] \in OperatorChar

\* C28 as stated: a glued piece is split at one of the six operators only, so
\* that every operator token the post-pass makes is one of the six, and
\* a==1, a<>1 and a=!1 stay whole
C28_SplitOnlyAtSixOperators ==
  Returned("tokenizeWhereClause") =>
    /\ \A i \in 1..Len(out) :
         (OperatorRun(out[i]) /\ \A n \in 1..Len(arg.pieces) : arg.pieces[n] # out[i]) =>
           out[i] \in SixOperators
    /\ arg.pieces \in {<<<<"a","=","=","1">>>>, <<<<"a","<",">","1">>>>, <<<<"a","=","!","1">>>>} => out = arg.pieces

\* C28, amended: the post-pass splits a token exactly when it begins with a
\* name that is immediately followed by a run of the characters = ! < >, into
\* the name, the whole run and the rest when there is one: age>25 gives age,
\* >, 25 and city='New York' gives city, =, 'New York', the tokens of the
\* spaced form; a==1, a<>1 and a=!1 are split too, at ==, <> and =!; a token
\* that begins with a quote, a digit or an operator, or whose name is followed
\* by another character, is never split
C28_SplitAtOperatorRun ==
  Returned("tokenizeWhereClause") =>
    /\ out = TokensOfPieces(arg.pieces)
    /\ \A n \in 1..Len(arg.pieces) :
         arg.pieces[n][1] \in QuoteChars => \E i \in 1..Len(out) : out[i] = arg.pieces[n]
    /\ \A g \in GluedSplits :
         arg.pieces \in {<<g.glued>>, g.tokens} => out = g.tokens

\* a glued comparison next to a quoted piece that holds an operator
C28_Witness ==
  /\ Returned("tokenizeWhereClause")
  /\ arg.pieces = <<<<"c","i","t","y","=","'","N","e","w"," ","Y","o","r","k","'">>, <<"A","N","D">>, <<"'","a","'","=","1">>>>
  /\ out = <<<<"c","i","t","y">>, <<"=">>, <<"'","N","e","w"," ","Y","o","r","k","'">>, <<"A","N","D">>, <<"'","a","'","=","1">>>>

\* C29: a quoted literal of a WHERE clause comes out of parseSQL as it went
\* in: SELECT * FROM c WHERE f = "s" gives the filter Condition(f, =, String s)
\* with no limit and no ordering, also when s holds several spaces in a row
\* or the words WHERE, ORDER BY or LIMIT
C29_QuotedLiteralsSurvive ==
  \A s \in QuotedLiterals :
    (Returned("parseSQL") /\ arg = LiteralQuery(s)) =>
      /\ out.type = "plan"
      /\ out.where = [type |-> "condition", field |-> <<"f">>, operator |-> <<"=">>, value |-> StringV(s)]
      /\ out.limit = JsNull /\ out.orderBy = JsNull

\* C30: splitByAnd cuts a WHERE clause only at the word AND outside quotes:
\* the parts of k conditions joined by AND are these k conditions, each with
\* its text unchanged, also when a field or a bare value begins with the
\* letters and, and when a quoted value holds the word AND
C30_SplitAtStandaloneAnd ==
  Returned("splitByAnd") => out = arg.conditions

====
